---- MODULE Spec2Model ----
(***************************************************************************)
(* Verification model of the okxgo backtest kernel (package backtest,      *)
(* Engine.Run / applyFill / flatten), the RiskAdapter overlay              *)
(* (risk_adapter.go) and the grid-search orchestrator (main.go).           *)
(*                                                                         *)
(* Real numbers are exact rationals <<n, d>> with d > 0 in lowest terms.   *)
(* A logarithm ln(x) of a positive rational x is carried as x itself:      *)
(* adding logs multiplies, scaling a log by an integer position raises to  *)
(* that power, and exp() returns the rational.                             *)
(***************************************************************************)
EXTENDS Integers, Sequences, FiniteSets, TLC

\* ------------------------------------------------------------------------
\* Bounds of the model
\* ------------------------------------------------------------------------
MaxTsSlots == 3
MaxBarsPerInst == 3
MaxBarsTotal == 3

\* ------------------------------------------------------------------------
\* Exact rational arithmetic: a float is <<numerator, denominator>> in lowest
\* terms; +Inf, -Inf and NaN are <<1, 0>>, <<-1, 0>> and <<0, 0>>
\* ------------------------------------------------------------------------
RECURSIVE Gcd(_, _)
Gcd(a, b) == IF b = 0 THEN a ELSE Gcd(b, a % b)

IAbs(x) == IF x < 0 THEN -x ELSE x

Rat(n, d) ==
    LET s == IF d < 0 THEN -1 ELSE 1
        g == Gcd(IAbs(n), IAbs(d))
    IN  IF d = 0 THEN <<IF n < 0 THEN -1 ELSE IF n > 0 THEN 1 ELSE 0, 0>>
        ELSE <<(s * n) \div g, (s * d) \div g>>

NaN == <<0, 0>>
PosInf == <<1, 0>>

RInt(i) == <<i, 1>>
RZero == <<0, 1>>
ROne == <<1, 1>>
RAdd(x, y) ==
    IF x[2] # 0 /\ y[2] # 0 THEN Rat(x[1] * y[2] + y[1] * x[2], x[2] * y[2])
    ELSE IF x = NaN \/ y = NaN THEN NaN
    ELSE IF x[2] = 0 /\ y[2] = 0 THEN (IF x = y THEN x ELSE NaN)
    ELSE IF x[2] = 0 THEN x ELSE y
RNeg(x) == <<-x[1], x[2]>>
RSub(x, y) == RAdd(x, RNeg(y))
RMul(x, y) == Rat(x[1] * y[1], x[2] * y[2])
RDiv(x, y) ==
    IF x[2] = 0 /\ y[2] # 0 THEN <<IF y[1] < 0 THEN -x[1] ELSE x[1], 0>>
    ELSE Rat(x[1] * y[2], x[2] * y[1])
RLt(x, y) ==
    IF x = NaN \/ y = NaN THEN FALSE
    ELSE IF x[2] = 0 THEN x[1] < 0 /\ x # y
    ELSE IF y[2] = 0 THEN y[1] > 0
    ELSE x[1] * y[2] < y[1] * x[2]
RLe(x, y) ==
    IF x = NaN \/ y = NaN THEN FALSE
    ELSE IF x[2] = 0 THEN x[1] < 0 \/ x = y
    ELSE IF y[2] = 0 THEN y[1] > 0
    ELSE x[1] * y[2] <= y[1] * x[2]
RAbs(x) == <<IAbs(x[1]), x[2]>>
RMax(x, y) == IF RLt(x, y) THEN y ELSE x
RMin(x, y) == IF RLt(y, x) THEN y ELSE x
RIsInt(x) == x[2] = 1

RECURSIVE RPowNat(_, _)
RPowNat(x, k) == IF k = 0 THEN ROne ELSE RMul(x, RPowNat(x, k - 1))

\* x^p for a rational x > 0 and an integral position p (as a rational).
RPow(x, p) ==
    IF p[1] >= 0 THEN RPowNat(x, p[1]) ELSE RPowNat(RDiv(ROne, x), -p[1])

\* ------------------------------------------------------------------------
\* Small float helpers of the kernel
\* ------------------------------------------------------------------------
\* Variant that lets every value through.
clampNone(x, lo, hi) == x

clamp(x, lo, hi) == IF RLt(x, lo) THEN lo ELSE IF RLt(hi, x) THEN hi ELSE x

sign(x) == IF x[1] < 0 THEN -1 ELSE IF x[1] > 0 THEN 1 ELSE 0

dirName(pos) == IF pos[1] > 0 THEN "long" ELSE "short"

sideOf(delta) == IF delta[1] >= 0 THEN "buy" ELSE "sell"

\* ------------------------------------------------------------------------
\* Instruments, timestamps and bars
\* ------------------------------------------------------------------------
Insts == {"A", "B"}

\* Lexicographic rank of an inst_id ("" sorts before every name).
InstRank(s) == CASE s = "A" -> 1 [] s = "B" -> 2 [] OTHER -> 0

\* Timestamps are multiples of half a minute; the configured bar is one minute.
SlotMs == (60 * 1000) \div 2

TsOf(slot) == slot * SlotMs

\* Closes a bar may take; the open is the other level, high and low the two levels.
PriceLevels == {1, 4}

OtherLevel(c) == IF c = 1 THEN 4 ELSE 1

MkCandle(inst, t, c) ==
    [InstID |-> inst, T |-> t, O |-> OtherLevel(c), H |-> 4, L |-> 1, C |-> c]

\* Strictly ascending or arbitrary-order arrays of distinct slots, up to a length.
RECURSIVE SlotSeqs(_)
SlotSeqs(n) ==
    IF n = 0 THEN {<<>>}
    ELSE LET prev == SlotSeqs(n - 1)
         IN  prev \cup {Append(q, x) : q \in {p \in prev : Len(p) = n - 1},
                                       x \in 1..MaxTsSlots}

Distinct(q) == \A a, b \in 1..Len(q) : a # b => q[a] # q[b]

Layouts ==
    {l \in [Insts -> {q \in SlotSeqs(MaxBarsPerInst) : Distinct(q)}] :
        Len(l["A"]) + Len(l["B"]) <= MaxBarsTotal}

\* ------------------------------------------------------------------------
\* flatten: per-instrument stable sort, concatenation, global stable sort
\* ------------------------------------------------------------------------
CandleLess(a, b) ==
    IF a.T = b.T THEN InstRank(a.InstID) < InstRank(b.InstID) ELSE a.T < b.T

RECURSIVE InsertSorted(_, _)
InsertSorted(sorted, x) ==
    IF sorted = <<>> THEN <<x>>
    ELSE LET l == sorted[Len(sorted)]
         IN  IF CandleLess(x, l)
             THEN Append(InsertSorted(SubSeq(sorted, 1, Len(sorted) - 1), x), l)
             ELSE Append(sorted, x)

RECURSIVE SortStable(_)
SortStable(q) ==
    IF q = <<>> THEN <<>>
    ELSE InsertSorted(SortStable(SubSeq(q, 1, Len(q) - 1)), q[Len(q)])

RECURSIVE FlattenFrom(_, _)
FlattenFrom(s, visit) ==
    IF visit = <<>> THEN <<>>
    ELSE LET inst == visit[1]
             named == [k \in 1..Len(s[inst]) |->
                         [InstID |-> inst, T |-> TsOf(s[inst][k])]]
         IN  SortStable(named) \o FlattenFrom(s, Tail(visit))

\* visit is the order in which the map range yields the instruments.
flatten(s, visit) == SortStable(FlattenFrom(s, visit))

VisitOrders == {<<"A", "B">>, <<"B", "A">>}

\* ------------------------------------------------------------------------
\* Shared helpers of package main
\* ------------------------------------------------------------------------
nonZeroOr(x, d) == IF x > 0 THEN x ELSE d

nonZeroOrFloat(x, d) == IF x[1] > 0 THEN x ELSE d

trueRange(high, low, prevClose) ==
    LET rangeHL == IF RLt(RSub(high, low), RZero) THEN RZero ELSE RSub(high, low)
        up == RAbs(RSub(high, prevClose))
        down == RAbs(RSub(low, prevClose))
        t1 == IF RLt(rangeHL, up) THEN up ELSE rangeHL
    IN  IF RLe(prevClose, RZero) THEN rangeHL
        ELSE IF RLt(t1, down) THEN down ELSE t1

emaUpdate(prev, value, period) ==
    LET alpha == Rat(2, period + 1)
    IN  IF period <= 1 THEN value
        ELSE IF prev = RZero THEN value
        ELSE RAdd(RMul(alpha, value), RMul(RSub(ROne, alpha), prev))

\* atrTracker.Update / Value: EMA of the true range over atr_period bars.
atrUpdate(atr, high, low, prevClose, period) ==
    emaUpdate(atr, trueRange(high, low, prevClose), period)

\* ------------------------------------------------------------------------
\* RiskAdapter (risk_adapter.go)
\* ------------------------------------------------------------------------
StopReasons == {"atr_stop", "atr_trail"}

NewRiskState ==
    [atr |-> RZero, position |-> RZero, entryPrice |-> RZero,
     maxFavorable |-> RZero, lastClose |-> RZero, holding |-> 0]

NewRiskAdapter ==
    [states |-> [n \in Insts |-> NewRiskState],
     equity |-> ROne, peakEquity |-> ROne, ddCooldown |-> 0, ddScaler |-> ROne,
     stopCounts |-> [r \in StopReasons |-> 0],
     ddActive |-> FALSE, ddStart |-> 0, ddEvents |-> <<>>, lastTs |-> 0]

resetPosition(st) ==
    [st EXCEPT !.position = RZero, !.entryPrice = RZero, !.maxFavorable = RZero]

\* Integer square root of a perfect square (positions are halves at the finest).
ISqrt(n) == CHOOSE k \in 0..n : k * k = n

\* exp(position * ln(ratio)) for an integral or half-integral position.
ExpPosLog(position, ratio) ==
    IF ratio[1] < 0 THEN NaN
    ELSE IF RIsInt(position) THEN RPow(ratio, position)
    ELSE RPow(<<ISqrt(ratio[1]), ISqrt(ratio[2])>>, RInt((2 * position[1]) \div position[2]))

\* Variant that starts counting the cooldown down on the candle after the one
\* that activated the circuit.
evaluateDrawdownNextCandle(ra, rc, ts) ==
    LET peak == IF RLe(ra.peakEquity, RZero) THEN ROne ELSE ra.peakEquity
        dd == RDiv(RSub(peak, ra.equity), peak)
        trig == rc.DDEnable /\ RLe(rc.DDThreshold, dd) /\ ra.ddCooldown = 0
        cd == ra.ddCooldown - 1
    IN  IF trig
        THEN [ra EXCEPT !.peakEquity = peak, !.ddScaler = Rat(1, 2),
                        !.ddCooldown = nonZeroOr(rc.DDCooldownBars, 96),
                        !.ddActive = TRUE, !.ddStart = ts]
        ELSE IF ra.ddCooldown > 0
        THEN IF cd = 0
             THEN [ra EXCEPT !.peakEquity = peak, !.ddCooldown = 0, !.ddScaler = ROne,
                             !.ddEvents = IF ra.ddActive
                                          THEN Append(@, [Start |-> ra.ddStart, End |-> ts])
                                          ELSE @,
                             !.ddActive = FALSE]
             ELSE [ra EXCEPT !.peakEquity = peak, !.ddCooldown = cd]
        ELSE [ra EXCEPT !.peakEquity = peak]

evaluateDrawdown(ra, rc, ts) ==
    LET peak == IF RLe(ra.peakEquity, RZero) THEN ROne ELSE ra.peakEquity
        dd == RDiv(RSub(peak, ra.equity), peak)
        trig == rc.DDEnable /\ RLe(rc.DDThreshold, dd) /\ ra.ddCooldown = 0
        a1 == IF trig
              THEN [ra EXCEPT !.peakEquity = peak, !.ddScaler = Rat(1, 2),
                              !.ddCooldown = nonZeroOr(rc.DDCooldownBars, 96),
                              !.ddActive = TRUE, !.ddStart = ts]
              ELSE [ra EXCEPT !.peakEquity = peak]
        cd == a1.ddCooldown - 1
    IN  IF a1.ddCooldown > 0
        THEN IF cd = 0
             THEN [a1 EXCEPT !.ddCooldown = 0, !.ddScaler = ROne,
                             !.ddEvents = IF a1.ddActive
                                          THEN Append(@, [Start |-> a1.ddStart, End |-> ts])
                                          ELSE @,
                             !.ddActive = FALSE]
             ELSE [a1 EXCEPT !.ddCooldown = cd]
        ELSE a1

RiskOnCandle(ra, rc, c) ==
    LET st == ra.states[c.InstID]
        cH == RInt(c.H)
        cL == RInt(c.L)
        cC == RInt(c.C)
        atr1 == atrUpdate(st.atr, cH, cL, st.lastClose, nonZeroOr(rc.ATRPeriod, 14))
        held == st.position # RZero /\ RLt(RZero, st.lastClose) /\ RLt(RZero, cC)
        eq1 == IF held THEN RMul(ra.equity, ExpPosLog(st.position, RDiv(cC, st.lastClose)))
               ELSE ra.equity
        mf == IF ~held THEN st.maxFavorable
              ELSE IF RLt(RZero, st.position)
                   THEN (IF RLt(st.maxFavorable, cH) THEN cH ELSE st.maxFavorable)
                   ELSE (IF st.maxFavorable = RZero \/ RLt(cL, st.maxFavorable)
                         THEN cL ELSE st.maxFavorable)
        st1 == [st EXCEPT !.atr = atr1, !.maxFavorable = mf, !.lastClose = cC]
        a1 == [ra EXCEPT !.states[c.InstID] = st1, !.equity = eq1,
                         !.peakEquity = IF RLt(@, eq1) THEN eq1 ELSE @]
    IN  [evaluateDrawdown(a1, rc, c.T) EXCEPT !.lastTs = c.T]

\* Variant that ignores the drawdown scaler.
applyVolTargetFullRisk(ra, rc, target, price, st) ==
    LET atr == st.atr
        perBarVol == RDiv(atr, price)
        scale0 == RDiv(nonZeroOrFloat(rc.RiskTarget, Rat(6, 10)),
                       RMax(perBarVol, Rat(1, 1000000)))
        scale == IF rc.MaxLeverage[1] > 0 THEN RMin(scale0, rc.MaxLeverage) ELSE scale0
    IN  IF RLe(atr, RZero) \/ RLe(price, RZero) THEN target
        ELSE IF RLe(perBarVol, RZero) THEN target
        ELSE RMul(target, scale)

applyVolTarget(ra, rc, target, price, st) ==
    LET atr == st.atr
        riskTarget == RMul(nonZeroOrFloat(rc.RiskTarget, Rat(6, 10)), ra.ddScaler)
        perBarVol == RDiv(atr, price)
        scale0 == RDiv(riskTarget, RMax(perBarVol, Rat(1, 1000000)))
        scale == IF rc.MaxLeverage[1] > 0 THEN RMin(scale0, rc.MaxLeverage) ELSE scale0
    IN  IF RLe(atr, RZero) \/ RLe(price, RZero) THEN target
        ELSE IF RLe(perBarVol, RZero) THEN target
        ELSE RMul(target, scale)

\* Variant that leaves the circuit marked active after reporting its window.
SummaryKeepActive(ra) ==
    LET end == IF ra.lastTs = 0 /\ Len(ra.ddEvents) > 0
               THEN ra.ddEvents[Len(ra.ddEvents)].End ELSE ra.lastTs
        flushed == IF ra.ddActive
                   THEN [ra EXCEPT !.ddEvents = Append(@, [Start |-> ra.ddStart, End |-> end])]
                   ELSE ra
    IN  [ra |-> flushed, StopCounts |-> flushed.stopCounts, DDWindows |-> flushed.ddEvents]

\* Summary returns the adapter after the call and the RiskSummary.
Summary(ra) ==
    LET end == IF ra.lastTs = 0 /\ Len(ra.ddEvents) > 0
               THEN ra.ddEvents[Len(ra.ddEvents)].End ELSE ra.lastTs
        flushed == IF ra.ddActive
                   THEN [ra EXCEPT !.ddEvents = Append(@, [Start |-> ra.ddStart, End |-> end]),
                                   !.ddActive = FALSE]
                   ELSE ra
    IN  [ra |-> flushed, StopCounts |-> flushed.stopCounts, DDWindows |-> flushed.ddEvents]

\* The reason of the stop that fires, or "" when none does.
\* Variant that looks at the trailing stop before the initial stop.
checkStopsTrailFirst(rc, price, st) ==
    LET atr == st.atr
        stopDist == RMul(nonZeroOrFloat(rc.ATRStopK, Rat(5, 2)), atr)
        trailDist == RMul(nonZeroOrFloat(rc.ATRTrailK, RInt(3)), atr)
        long == RLt(RZero, st.position)
        short == RLt(st.position, RZero)
    IN  IF st.position = RZero \/ RLe(price, RZero) THEN ""
        ELSE IF RLe(atr, RZero) \/ RLe(st.entryPrice, RZero) THEN ""
        ELSE IF long /\ RLt(RZero, st.maxFavorable)
                /\ RLe(price, RSub(st.maxFavorable, trailDist)) THEN "atr_trail"
        ELSE IF short /\ RLt(RZero, st.maxFavorable)
                /\ RLe(RAdd(st.maxFavorable, trailDist), price) THEN "atr_trail"
        ELSE IF long /\ RLe(price, RSub(st.entryPrice, stopDist)) THEN "atr_stop"
        ELSE IF short /\ RLe(RAdd(st.entryPrice, stopDist), price) THEN "atr_stop"
        ELSE ""

checkStops(rc, price, st) ==
    LET atr == st.atr
        stopDist == RMul(nonZeroOrFloat(rc.ATRStopK, Rat(5, 2)), atr)
        trailDist == RMul(nonZeroOrFloat(rc.ATRTrailK, RInt(3)), atr)
        long == RLt(RZero, st.position)
        short == RLt(st.position, RZero)
    IN  IF st.position = RZero \/ RLe(price, RZero) THEN ""
        ELSE IF RLe(atr, RZero) \/ RLe(st.entryPrice, RZero) THEN ""
        ELSE IF long /\ RLe(price, RSub(st.entryPrice, stopDist)) THEN "atr_stop"
        ELSE IF short /\ RLe(RAdd(st.entryPrice, stopDist), price) THEN "atr_stop"
        ELSE IF long /\ RLt(RZero, st.maxFavorable)
                /\ RLe(price, RSub(st.maxFavorable, trailDist)) THEN "atr_trail"
        ELSE IF short /\ RLt(RZero, st.maxFavorable)
                /\ RLe(RAdd(st.maxFavorable, trailDist), price) THEN "atr_trail"
        ELSE ""

bumpStop(ra, reason) == [ra EXCEPT !.stopCounts[reason] = @ + 1]

\* Variant with one exposure budget shared by the instruments: whoever is
\* approved first takes it.
RiskApproveExclusive(ra, rc, inst, current, target, price, holdingBars) ==
    LET busy == \E o \in Insts \ {inst} : ra.states[o].position # RZero
        approved == IF busy THEN RZero ELSE target
    IN  [ra |-> [ra EXCEPT !.states[inst].position = approved],
         approved |-> approved, acts |-> <<>>]

\* Approve returns the adapter after the call, the approved position and the actions.
RiskApprove(ra, rc, inst, current, target, price, holdingBars) ==
    LET st0 == [ra.states[inst] EXCEPT !.holding = holdingBars]
        reason == checkStops(rc, price, st0)
        act == [InstID |-> inst, Type |-> "close", Reason |-> reason,
                Size |-> RAbs(st0.position), Price |-> price]
        maxAbs == nonZeroOrFloat(rc.MaxAbsPosition, ROne)
        s1 == clamp(applyVolTarget(ra, rc, target, price, st0), RNeg(maxAbs), maxAbs)
        scaled == IF rc.MaxLeverage[1] > 0
                  THEN clamp(s1, RNeg(rc.MaxLeverage), rc.MaxLeverage) ELSE s1
        st1 == IF current = RZero /\ scaled # RZero /\ RLt(RZero, price)
               THEN [st0 EXCEPT !.entryPrice = price, !.maxFavorable = price] ELSE st0
        st2 == IF scaled = RZero THEN resetPosition(st1)
               ELSE [st1 EXCEPT !.position = scaled]
    IN  IF reason # ""
        THEN [ra |-> [bumpStop(ra, reason) EXCEPT !.states[inst] = resetPosition(st0)],
              approved |-> RZero, acts |-> <<act>>]
        ELSE [ra |-> [ra EXCEPT !.states[inst] = st2], approved |-> scaled, acts |-> <<>>]

\* ------------------------------------------------------------------------
\* Kernel configuration (backtest.Config, Config.withDefaults, backtest.New)
\* ------------------------------------------------------------------------
withDefaults(c) ==
    [c EXCEPT !.InitialEquity = IF @ = RZero THEN ROne ELSE @,
              !.BarMinutes = IF @ = 0 THEN 5 ELSE @,
              !.TakerFeeBps = IF @ = RZero THEN RInt(6) ELSE @,
              !.SlippageBps = IF @ = RZero THEN RInt(3) ELSE @,
              !.MinRebalanceStep = IF @ = RZero THEN Rat(5, 100) ELSE @,
              !.MaxAbsPosition = IF @ = RZero THEN ROne ELSE @]

\* Hook wirings: no hook, or a BeforeFill hook that reprices together with an
\* AfterFill hook that charges an extra cost.
HookModes == {"none", "both"}

RawConfigs ==
    [InitialEquity : {RZero}, BarMinutes : {1}, TradeOnNextBar : BOOLEAN,
     TakerFeeBps : {RInt(2497)}, MakerFeeBps : {RZero}, SlippageBps : {RZero},
     UseMaker : {FALSE}, MinRebalanceStep : {RZero}, MaxAbsPosition : {RZero},
     Hooks : HookModes]

\* FillHook results (fillPrice, extraCostBps) of the two wired hooks.
BeforeFillHook(inst, side, delta, refPx) == [px |-> RInt(2), extra |-> RZero]

AfterFillHook(inst, side, delta, refPx) == [px |-> RZero, extra |-> RInt(7500)]

\* The risk overlay settings the kernel runs are wired with.
KernelRiskConfig ==
    [RiskTarget |-> RInt(6), ATRPeriod |-> 1, ATRStopK |-> ROne, ATRTrailK |-> ROne,
     MaxLeverage |-> ROne, MaxAbsPosition |-> ROne,
     DDEnable |-> TRUE, DDThreshold |-> Rat(15, 100), DDCooldownBars |-> 2]

nextBarTs(t, barMin) == t + barMin * 60 * 1000

\* Variant that schedules on the signal bar whatever the setting.
decideApplyTsSameBar(t, next, barMin) == t

decideApplyTs(t, next, barMin) == IF next THEN nextBarTs(t, barMin) ELSE t

\* Variant that prices at the close whatever the setting.
refPriceForFillClose(next, k) == RInt(k.C)

refPriceForFill(next, k) == IF next THEN RInt(k.O) ELSE RInt(k.C)

NoPending == [set |-> FALSE, target |-> RZero, applyAt |-> 0]

NewInstState ==
    [lastClose |-> RZero, pos |-> RZero, entryPx |-> RZero, entryTs |-> 0,
     holding |-> 0, pendingTarget |-> NoPending]

findInGroup(g, inst) == {k \in 1..Len(g) : g[k].InstID = inst}

\* ------------------------------------------------------------------------
\* State of one Engine.Run
\* ------------------------------------------------------------------------
VARIABLES
    cfg,        \* Engine.cfg after withDefaults (with the hook wiring)
    hasRisk,    \* Engine.risk # nil
    all,        \* flatten(series) of the Series argument
    i,          \* index of the first bar of the next group (1-based)
    ts,         \* timestamp of the current group
    group,      \* bars of the current group, prices included
    eq, peak, maxDD,
    states,     \* inst -> instState
    curve, trades,
    sumRet,     \* aggregate log return of the group, carried as exp(sumRet)
    targets,    \* inst -> target of the current group
    pc,         \* position inside the loop body
    ra,         \* the RiskAdapter
    result,     \* Result returned by Run
    trace,      \* calls made in the current group, in order
    pendingSrc, \* inst -> timestamp of the bar whose signal made the pending
    fills,      \* every fill applied, with the bar it was applied at
    start,      \* states, equity and risk adapter as the current group began
    glog,       \* per recorded group: were all positions 0 before / after it
    runs,       \* number of executions on the same inputs (1 or 2)
    run,        \* the execution in progress
    script,     \* bars and strategy targets of the first execution, per group
    first,      \* Result of the first execution
    rangeSeen,  \* map iteration orders the first execution approved in
    riskCfg,    \* RiskAdapter.cfg of the adapter driven on its own
    adapter,    \* that RiskAdapter
    approveLog, \* its last Approve call and what it returned
    calls,      \* number of calls made on it
    ddLog,      \* the calls made on it, in order
    summary,    \* DDWindows of its last Summary
    stratCfg,   \* StrategyAdapter.cfg of the wired regime strategy
    strat,      \* that StrategyAdapter (none when any strategy drives the kernel)
    composed,   \* its last OnCandle driven on its own: inputs and what it composed
    rawConfig,  \* the BacktestConfig as read from the file
    config,     \* BacktestRunner.config
    barMinutes, \* BacktestRunner.barMinutes
    runnerPc,   \* how far NewBacktestRunner and BacktestRunner.Run have come
    analytics,  \* RunAnalytics.Attribution of the run
    portfolio,  \* BacktestRunner.portfolio, the portfolio.Engine (none when not wired)
    proposed,   \* its last Propose: the weights before, asked for and returned
    optimization, \* BacktestConfig.Optimization
    metricSalt, \* which series the grid search runs on
    baseline,   \* parameter tuple and portfolio wiring of the baseline run
    sets,       \* runGridSearch: the shuffled parameter sets
    entries,    \* runGridSearch: the entries appended so far
    leaderboard,\* what runGridSearch returned
    firstBoard, \* the leaderboard of the first of two searches
    gridPc,     \* position inside runGridSearch
    report      \* the best candidate and the counts runGridSearch reports

kernelVars == <<cfg, hasRisk, all, i, ts, group, eq, peak, maxDD, states, curve,
                trades, sumRet, targets, pc, ra, result, trace, pendingSrc, fills,
                start, glog, runs, run, script, first, rangeSeen, stratCfg, strat,
                composed, rawConfig, config, barMinutes, runnerPc, analytics,
                portfolio, proposed>>

stratVars == <<stratCfg, strat, composed>>

runnerVars == <<rawConfig, config, barMinutes, runnerPc, analytics, portfolio, proposed>>

riskVars == <<riskCfg, adapter, approveLog, calls, ddLog, summary>>

gridVars == <<optimization, metricSalt, baseline, sets, entries, leaderboard,
              firstBoard, gridPc, report>>

vars == <<kernelVars, riskVars, gridVars>>

\* No regime strategy is wired: any strategy drives the kernel.
NoStrategyConfig == <<>>

NoStrategy == <<>>

NoResult == [EquityCurve |-> <<>>, Trades |-> <<>>, FinalEquity |-> RZero,
             MaxDD |-> RZero, NumTrades |-> 0]

\* The adapter driven on its own and the grid search, while the kernel runs.
RiskIdle ==
    /\ riskCfg = KernelRiskConfig
    /\ adapter = NewRiskAdapter
    /\ approveLog = <<>>
    /\ calls = 0
    /\ ddLog = <<>>
    /\ summary = <<>>

\* use_portfolio is off: buildPortfolioEngine returns nil.
NoPortfolio == <<>>

\* No runner is being built.
RunnerIdle ==
    /\ rawConfig = <<>>
    /\ config = <<>>
    /\ barMinutes = 0
    /\ runnerPc = "idle"
    /\ analytics = <<>>
    /\ portfolio = NoPortfolio
    /\ proposed = <<>>

NoBaseline == [Params |-> <<>>, UsePortfolio |-> FALSE]

GridIdle ==
    /\ optimization = [Enable |-> "false", MaxSamples |-> 0, Seed |-> 0]
    /\ metricSalt = 0
    /\ baseline = NoBaseline
    /\ sets = <<>>
    /\ entries = <<>>
    /\ leaderboard = <<>>
    /\ firstBoard = <<>>
    /\ gridPc = "idle"
    /\ report = <<>>

\* State of Run before the loop, for one of the given configurations, risk
\* wirings and series, executed n times.
InitRunOn(rawCfgs, risks, flats, n, at) ==
    /\ cfg \in {withDefaults(c) : c \in rawCfgs}
    /\ hasRisk \in risks
    /\ all \in flats
    /\ i = 1
    /\ ts = 0
    /\ group = <<>>
    /\ eq = cfg.InitialEquity
    /\ peak = cfg.InitialEquity
    /\ maxDD = RZero
    /\ states = [k \in Insts |-> NewInstState]
    /\ curve = <<>>
    /\ trades = <<>>
    /\ sumRet = ROne
    /\ targets = <<>>
    /\ pc = at
    /\ ra = NewRiskAdapter
    /\ result = NoResult
    /\ trace = <<>>
    /\ pendingSrc = [k \in Insts |-> 0]
    /\ fills = <<>>
    /\ start = [states |-> states, eq |-> eq, ra |-> ra]
    /\ glog = <<>>
    /\ runs = n
    /\ run = 1
    /\ script = <<>>
    /\ first = NoResult
    /\ rangeSeen = {}

\* The same with any strategy driving the kernel, on one of the given series.
InitRun(rawCfgs, risks, layouts, n, at) ==
    /\ InitRunOn(rawCfgs, risks,
                 {flatten(s, visit) : s \in layouts, visit \in VisitOrders}, n, at)
    /\ stratCfg = NoStrategyConfig
    /\ strat = NoStrategy
    /\ composed = <<>>

Init ==
    /\ InitRun(RawConfigs, BOOLEAN, Layouts, 1, "begin")
    /\ RunnerIdle
    /\ RiskIdle
    /\ GridIdle

\* ------------------------------------------------------------------------
\* Engine.applyFill
\* ------------------------------------------------------------------------
Ev(step, inst) == [step |-> step, inst |-> inst]

\* Trade.Return = sign(cur) * ln(refPx / entryPx) * |cur|, carried as its exp.
TradeReturn(cur, refPx, entryPx) ==
    IF entryPx = RZero \/ refPx = RZero THEN ROne
    ELSE ExpPosLog(cur, RDiv(refPx, entryPx))

\* Variant that takes every change of a held position for a close.
isClosingAnyChange(cur, target) == cur # RZero

\* closing: the fill takes a held position to zero or through it.
isClosing(cur, target) == cur # RZero /\ (target = RZero \/ sign(target) # sign(cur))

\* Variant that keeps the stored entry of a position closed to zero.
storeEntryKeepOnClose(s, target, refPx, t) ==
    IF isClosing(s.pos, target) /\ target # RZero
    THEN [s EXCEPT !.pos = target, !.entryPx = refPx, !.entryTs = t]
    ELSE IF s.pos = RZero /\ target # RZero
    THEN [s EXCEPT !.pos = target, !.entryPx = refPx, !.entryTs = t]
    ELSE [s EXCEPT !.pos = target]

\* The position and the stored entry after the fill.
storeEntry(s, target, refPx, t) ==
    IF isClosing(s.pos, target)
    THEN IF target # RZero
         THEN [s EXCEPT !.pos = target, !.entryPx = refPx, !.entryTs = t]
         ELSE [s EXCEPT !.pos = target, !.entryPx = RZero, !.entryTs = 0]
    ELSE IF s.pos = RZero /\ target # RZero
         THEN [s EXCEPT !.pos = target, !.entryPx = refPx, !.entryTs = t]
         ELSE [s EXCEPT !.pos = target]

\* |delta| < 1e-9, computed without leaving 32 bits.
belowFillStep(delta) ==
    IAbs(delta[1]) <= 2 /\ IAbs(delta[1]) * 1000000000 < delta[2]

\* Result: the states, trades and equity after the fill, whether a fill took place
\* (done) and the price it took place at (px).
applyFill(c, sts, inst, target, refPx0, t, trs, e) ==
    LET s == sts[inst]
        cur == s.pos
        delta == RSub(target, cur)
        fee == IF c.UseMaker THEN c.MakerFeeBps ELSE c.TakerFeeBps
        hb == BeforeFillHook(inst, sideOf(delta), RAbs(delta), refPx0)
        useB == c.Hooks = "both"
        refPx == IF useB /\ RLt(RZero, hb.px) THEN hb.px ELSE refPx0
        costBps == IF useB THEN RAdd(RAdd(fee, c.SlippageBps), hb.extra)
                   ELSE RAdd(fee, c.SlippageBps)
        turnover == RAbs(delta)
        e1 == RMul(e, RSub(ROne, RDiv(RMul(turnover, costBps), RInt(10000))))
        closing == isClosing(cur, target)
        trade == [InstID |-> inst, Dir |-> dirName(cur), EntryTime |-> s.entryTs,
                  EntryPrice |-> s.entryPx, ExitTime |-> t, ExitPrice |-> refPx,
                  Size |-> RAbs(cur), Return |-> TradeReturn(cur, refPx, s.entryPx)]
        s1 == storeEntry(s, target, refPx, t)
        ha == AfterFillHook(inst, sideOf(delta), RAbs(delta), refPx)
        e2 == IF c.Hooks = "both" /\ ha.extra # RZero
              THEN RMul(e1, RSub(ROne, RDiv(RMul(turnover, ha.extra), RInt(10000))))
              ELSE e1
    IN  IF belowFillStep(delta)
        THEN [states |-> sts, trades |-> trs, eq |-> e, done |-> FALSE, px |-> refPx0]
        ELSE [states |-> [sts EXCEPT ![inst] = s1],
              trades |-> IF closing THEN Append(trs, trade) ELSE trs,
              eq |-> e2, done |-> TRUE, px |-> refPx]

\* ------------------------------------------------------------------------
\* Engine.Run, one action per step of the loop body
\* ------------------------------------------------------------------------
\* 2.0: the bars of the next timestamp.
GroupLen(q, from) ==
    Cardinality({k \in from..Len(q) : \A m \in from..k : q[m].T = q[from].T})

BeginGroupOn(Mk(_, _, _), levels) ==
    /\ pc = "begin"
    /\ i <= Len(all)
    /\ LET n == GroupLen(all, i)
       IN  \E closes \in [1..n -> levels] :
              group' = [k \in 1..n |-> Mk(all[i + k - 1].InstID, all[i].T, closes[k])]
    /\ run = 2 => group' = script[Len(curve) + 1].group
    /\ ts' = all[i].T
    /\ start' = [states |-> states, eq |-> eq, ra |-> ra]
    /\ trace' = <<>>
    /\ targets' = <<>>
    /\ sumRet' = ROne
    /\ pc' = "equity"
    /\ UNCHANGED <<riskVars, gridVars, stratVars, runnerVars, runs, run, first, glog, script, rangeSeen,
                   cfg, hasRisk, all, i, eq, peak, maxDD, states, curve,
                   trades, ra, result, pendingSrc, fills>>

BeginGroup == BeginGroupOn(MkCandle, PriceLevels)

\* Variant that takes the position each due pending is about to set.
RECURSIVE GroupReturnAfterFill(_, _)
GroupReturnAfterFill(sts, g) ==
    IF g = <<>> THEN ROne
    ELSE LET k == g[1]
             st == sts[k.InstID]
             p == IF st.pendingTarget.set THEN st.pendingTarget.target ELSE st.pos
             r == IF RLt(RZero, st.lastClose) /\ p # RZero
                  THEN ExpPosLog(p, RDiv(RInt(k.C), st.lastClose))
                  ELSE ROne
         IN  RMul(r, GroupReturnAfterFill(sts, Tail(g)))

\* Variant that marks every instrument to market whatever its position.
RECURSIVE GroupReturnAlways(_, _)
GroupReturnAlways(sts, g) ==
    IF g = <<>> THEN ROne
    ELSE LET k == g[1]
             st == sts[k.InstID]
             r == IF RLt(RZero, st.lastClose)
                  THEN RDiv(RInt(k.C), st.lastClose)
                  ELSE ROne
         IN  RMul(r, GroupReturnAlways(sts, Tail(g)))

\* 2.1: aggregate return of the group from the positions held coming in.
RECURSIVE GroupReturn(_, _)
GroupReturn(sts, g) ==
    IF g = <<>> THEN ROne
    ELSE LET k == g[1]
             st == sts[k.InstID]
             r == IF RLt(RZero, st.lastClose) /\ st.pos # RZero
                  THEN ExpPosLog(st.pos, RDiv(RInt(k.C), st.lastClose))
                  ELSE ROne
         IN  RMul(r, GroupReturn(sts, Tail(g)))

StepEvents(step, g) == [k \in 1..Len(g) |-> Ev(step, g[k].InstID)]

AccumulateReturn ==
    /\ pc = "equity"
    /\ sumRet' = GroupReturn(states, group)
    /\ trace' = trace \o StepEvents("equity", group)
    /\ pc' = "oncandle"
    /\ UNCHANGED <<riskVars, gridVars, stratVars, runnerVars, runs, run, first, start, glog, script, rangeSeen,
                   cfg, hasRisk, all, i, ts, group, eq, peak, maxDD, states,
                   curve, trades, targets, ra, result, pendingSrc, fills>>

\* 2.2: risk.OnCandle for every bar of the group (no portfolio is wired).
RECURSIVE RiskOnCandles(_, _, _)
RiskOnCandles(a, rc, g) ==
    IF g = <<>> THEN a ELSE RiskOnCandles(RiskOnCandle(a, rc, g[1]), rc, Tail(g))

PropagateCandles ==
    /\ pc = "oncandle"
    /\ ra' = IF hasRisk THEN RiskOnCandles(ra, riskCfg, group) ELSE ra
    /\ trace' = IF hasRisk THEN trace \o StepEvents("risk_on_candle", group) ELSE trace
    /\ pc' = "strategy"
    /\ UNCHANGED <<riskVars, gridVars, stratVars, runnerVars, runs, run, first, start, glog, script, rangeSeen,
                   cfg, hasRisk, all, i, ts, group, eq, peak, maxDD, states,
                   curve, trades, sumRet, targets, result, pendingSrc, fills>>

\* 2.3: strategy.OnCandle for every bar, then the signals become targets.
\* The strategy is any strategy: per bar it emits no signal or one signal for
\* that bar's instrument, of one of the given sides and sizes (a close has no
\* size); the run of Spec has buy and sell signals of size 1.
SignalsOf(sides, sizes) ==
    {[side |-> "none", size |-> RZero]}
        \cup {[side |-> "close", size |-> RZero] : x \in sides \cap {"close"}}
        \cup {[side |-> x, size |-> z] : x \in sides \ {"close"}, z \in sizes}

SignalValue(side, size) ==
    CASE side = "buy" -> RMax(size, RZero)
      [] side = "sell" -> RNeg(RMax(size, RZero))
      [] side = "close" -> RZero
      [] OTHER -> size

TargetsOf(c, g, choice) ==
    [n \in {g[k].InstID : k \in {m \in 1..Len(g) : choice[m].side # "none"}} |->
        LET sig == {m \in 1..Len(g) : g[m].InstID = n /\ choice[m].side # "none"}
            k == CHOOSE m \in sig : \A x \in sig : x <= m
        IN  clamp(SignalValue(choice[k].side, choice[k].size),
                  RNeg(c.MaxAbsPosition), c.MaxAbsPosition)]

CollectSignalsOf(sides, sizes) ==
    /\ pc = "strategy"
    /\ \E choice \in [1..Len(group) -> SignalsOf(sides, sizes)] :
          targets' = TargetsOf(cfg, group, choice)
    /\ run = 2 => targets' = script[Len(curve) + 1].targets
    /\ trace' = trace \o StepEvents("strategy_on_candle", group)
    /\ pc' = "approve"
    /\ UNCHANGED <<riskVars, gridVars, stratVars, runnerVars, runs, run, first, start, glog, script, rangeSeen,
                   cfg, hasRisk, all, i, ts, group, eq, peak, maxDD, states,
                   curve, trades, sumRet, ra, result, pendingSrc, fills>>

CollectSignals == CollectSignalsOf({"buy", "sell"}, {ROne})

\* 2.4: approve and schedule, one instrument of the targets map at a time.
\* Variant that replaces an outstanding pending by every approved target.
ApproveOneOverwrite(c, risk, g, t, tgts, acc, inst) ==
    LET ss == acc.states[inst]
        cur == ss.pos
        tgt == tgts[inst]
        inG == findInGroup(g, inst)
        ref == IF ss.lastClose = RZero /\ inG # {}
               THEN RInt(g[CHOOSE k \in inG : \A m \in inG : k <= m].C)
               ELSE ss.lastClose
        r == IF risk
             THEN RiskApprove(acc.ra, riskCfg, inst, cur, tgt, ref, ss.holding)
             ELSE [ra |-> acc.ra, approved |-> tgt, acts |-> <<>>]
        stop == \E a \in 1..Len(r.acts) : r.acts[a].Type \in {"close", "halt"}
        at == decideApplyTs(t, c.TradeOnNextBar, c.BarMinutes)
        p2 == [set |-> TRUE, target |-> IF stop THEN RZero ELSE r.approved,
               applyAt |-> at]
    IN  IF RLt(RAbs(RSub(tgt, cur)), c.MinRebalanceStep) THEN acc
        ELSE [states |-> [acc.states EXCEPT ![inst].pendingTarget = p2],
              ra |-> r.ra,
              src |-> [acc.src EXCEPT ![inst] = t],
              trace |-> Append(acc.trace, Ev("approve", inst))]

ApproveOne(c, risk, g, t, tgts, acc, inst) ==
    LET ss == acc.states[inst]
        cur == ss.pos
        tgt == tgts[inst]
        inG == findInGroup(g, inst)
        ref == IF ss.lastClose = RZero /\ inG # {}
               THEN RInt(g[CHOOSE k \in inG : \A m \in inG : k <= m].C)
               ELSE ss.lastClose
        r == IF risk
             THEN RiskApprove(acc.ra, riskCfg, inst, cur, tgt, ref, ss.holding)
             ELSE [ra |-> acc.ra, approved |-> tgt, acts |-> <<>>]
        stop == \E a \in 1..Len(r.acts) : r.acts[a].Type \in {"close", "halt"}
        at == decideApplyTs(t, c.TradeOnNextBar, c.BarMinutes)
        p1 == IF stop THEN [set |-> TRUE, target |-> RZero, applyAt |-> at]
              ELSE ss.pendingTarget
        p2 == IF ~p1.set THEN [set |-> TRUE, target |-> r.approved, applyAt |-> at]
              ELSE p1
    IN  IF RLt(RAbs(RSub(tgt, cur)), c.MinRebalanceStep) THEN acc
        ELSE [states |-> [acc.states EXCEPT ![inst].pendingTarget = p2],
              ra |-> r.ra,
              src |-> IF stop \/ ~p1.set THEN [acc.src EXCEPT ![inst] = t] ELSE acc.src,
              trace |-> Append(acc.trace, Ev("approve", inst))]

RECURSIVE ApproveAll(_, _, _, _, _, _, _)
ApproveAll(c, risk, g, t, tgts, acc, ord) ==
    IF ord = <<>> THEN acc
    ELSE ApproveAll(c, risk, g, t, tgts, ApproveOne(c, risk, g, t, tgts, acc, ord[1]),
                    Tail(ord))

\* Every order in which ranging over a map with these keys may yield them.
RangeOrders(keys) ==
    {q \in UNION {[1..n -> keys] : n \in {Cardinality(keys)}} :
        \A a, b \in 1..Len(q) : a # b => q[a] # q[b]}

ApproveAndSchedule ==
    /\ pc = "approve"
    /\ \E ord \in RangeOrders(DOMAIN targets) :
       \E out \in {ApproveAll(cfg, hasRisk, group, ts, targets,
                              [states |-> states, ra |-> ra, src |-> pendingSrc,
                               trace |-> trace], ord)} :
              /\ states' = out.states
              /\ ra' = out.ra
              /\ pendingSrc' = out.src
              /\ trace' = out.trace
              /\ rangeSeen' = IF runs = 2 /\ run = 1 /\ Len(out.trace) = Len(trace) + 2
                               THEN rangeSeen \cup {ord} ELSE rangeSeen
    /\ pc' = "applyret"
    /\ UNCHANGED <<riskVars, gridVars, stratVars, runnerVars, runs, run, first, start, glog, script,
                   cfg, hasRisk, all, i, ts, group, eq, peak, maxDD, curve,
                   trades, sumRet, targets, result, fills>>

\* 2.5: the aggregate return is multiplied into equity.
ApplyReturn ==
    /\ pc = "applyret"
    /\ eq' = IF sumRet # ROne THEN RMul(eq, sumRet) ELSE eq
    /\ pc' = "fill"
    /\ UNCHANGED <<riskVars, gridVars, stratVars, runnerVars, runs, run, first, start, glog, script, rangeSeen,
                   cfg, hasRisk, all, i, ts, group, peak, maxDD, states, curve,
                   trades, sumRet, targets, ra, result, trace, pendingSrc, fills>>

\* Variant that applies a pending only on a bar at its apply_ts.
pendingDueExact(st, t) == st.pendingTarget.set /\ t = st.pendingTarget.applyAt

pendingDue(st, t) == st.pendingTarget.set /\ t >= st.pendingTarget.applyAt

\* Variant that leaves the pending in place once applied.
FillOneKeepPending(c, t, acc, k) ==
    LET st == acc.states[k.InstID]
        price == refPriceForFill(c.TradeOnNextBar, k)
        f == applyFill(c, acc.states, k.InstID, st.pendingTarget.target, price, t,
                       acc.trades, acc.eq)
        rec == [inst |-> k.InstID, sigTs |-> acc.src[k.InstID], ts |-> t, ref |-> price,
                px |-> f.px, barO |-> RInt(k.O), barC |-> RInt(k.C),
                target |-> st.pendingTarget.target]
    IN  IF pendingDue(st, t)
        THEN [states |-> f.states,
              trades |-> f.trades, eq |-> f.eq, src |-> acc.src,
              fills |-> IF f.done THEN Append(acc.fills, rec) ELSE acc.fills,
              trace |-> Append(acc.trace, Ev("fill", k.InstID))]
        ELSE acc

\* 2.6: every pending that is due is filled at this group's bar of its instrument.
FillOne(c, t, acc, k) ==
    LET st == acc.states[k.InstID]
        price == refPriceForFill(c.TradeOnNextBar, k)
        f == applyFill(c, acc.states, k.InstID, st.pendingTarget.target, price, t,
                       acc.trades, acc.eq)
        rec == [inst |-> k.InstID, sigTs |-> acc.src[k.InstID], ts |-> t, ref |-> price,
                px |-> f.px, barO |-> RInt(k.O), barC |-> RInt(k.C),
                target |-> st.pendingTarget.target]
    IN  IF pendingDue(st, t)
        THEN [states |-> [f.states EXCEPT ![k.InstID].pendingTarget = NoPending],
              trades |-> f.trades, eq |-> f.eq, src |-> acc.src,
              fills |-> IF f.done THEN Append(acc.fills, rec) ELSE acc.fills,
              trace |-> Append(acc.trace, Ev("fill", k.InstID))]
        ELSE acc

\* Variant that only looks at the first bar of the group.
FillAllFirstBar(c, t, acc, g) ==
    IF g = <<>> THEN acc ELSE FillOne(c, t, acc, g[1])

RECURSIVE FillAll(_, _, _, _)
FillAll(c, t, acc, g) ==
    IF g = <<>> THEN acc ELSE FillAll(c, t, FillOne(c, t, acc, g[1]), Tail(g))

ApplyDuePendings ==
    /\ pc = "fill"
    /\ \E out \in {FillAll(cfg, ts, [states |-> states, trades |-> trades, eq |-> eq,
                                     src |-> pendingSrc, fills |-> fills,
                                     trace |-> trace], group)} :
           /\ states' = out.states
           /\ trades' = out.trades
           /\ eq' = out.eq
           /\ fills' = out.fills
           /\ trace' = out.trace
    /\ pc' = "roll"
    /\ UNCHANGED <<riskVars, gridVars, stratVars, runnerVars, runs, run, first, start, glog, script, rangeSeen,
                   cfg, hasRisk, all, i, ts, group, peak, maxDD, curve, sumRet,
                   targets, ra, result, pendingSrc>>

\* 2.7: last_close and holding_bars are rolled.
RECURSIVE RollAll(_, _)
RollAll(sts, g) ==
    IF g = <<>> THEN sts
    ELSE LET n == g[1].InstID
         IN  RollAll([sts EXCEPT ![n].lastClose = RInt(g[1].C),
                                 ![n].holding = IF sts[n].pos # RZero THEN @ + 1 ELSE 0],
                     Tail(g))

RollState ==
    /\ pc = "roll"
    /\ states' = RollAll(states, group)
    /\ trace' = trace \o StepEvents("roll", group)
    /\ pc' = "record"
    /\ UNCHANGED <<riskVars, gridVars, stratVars, runnerVars, runs, run, first, start, glog, script, rangeSeen,
                   cfg, hasRisk, all, i, ts, group, eq, peak, maxDD, curve,
                   trades, sumRet, targets, ra, result, pendingSrc, fills>>

\* 2.8: peak, drawdown and the equity point of the group (the 1e-12 added to the
\* peak in the divisor is below the resolution of the model).
Drawdown(pk, e) == RDiv(RSub(pk, e), pk)

RecordEquity ==
    /\ pc = "record"
    /\ LET pk == IF RLt(peak, eq) THEN eq ELSE peak
           dd == Drawdown(pk, eq)
       IN  /\ peak' = pk
           /\ maxDD' = IF RLt(maxDD, dd) THEN dd ELSE maxDD
           /\ curve' = Append(curve, [Ts |-> ts, Equity |-> eq, Ret |-> sumRet,
                                      Drawdown |-> dd])
    /\ glog' = Append(glog, [before |-> \A n \in Insts : start.states[n].pos = RZero,
                              after |-> \A n \in Insts : states[n].pos = RZero])
    /\ script' = IF runs = 2 /\ run = 1
                 THEN Append(script, [group |-> group, targets |-> targets]) ELSE script
    /\ i' = i + Len(group)
    /\ pc' = "begin"
    /\ UNCHANGED <<riskVars, gridVars, stratVars, runnerVars, runs, run, first, start, rangeSeen,
                   cfg, hasRisk, all, ts, group, eq, states, trades, sumRet,
                   targets, ra, result, trace, pendingSrc, fills>>

\* 3: the Result (an empty series returns the zero Result).
Finish ==
    /\ pc = "begin"
    /\ i > Len(all)
    /\ result' = IF Len(all) = 0 THEN NoResult
                 ELSE [EquityCurve |-> curve, Trades |-> trades, FinalEquity |-> eq,
                       MaxDD |-> maxDD, NumTrades |-> Len(trades)]
    /\ pc' = "done"
    /\ UNCHANGED <<riskVars, gridVars, stratVars, runnerVars, runs, run, first, start, glog, script, rangeSeen,
                   cfg, hasRisk, all, i, ts, group, eq, peak, maxDD, states,
                   curve, trades, sumRet, targets, ra, trace, pendingSrc, fills>>

\* A second execution on the same series and configuration: Run starts over
\* with fresh instrument states and a fresh strategy and risk adapter. The
\* second execution is fed the bars of the first and, the strategy being a
\* function of the bars it has seen, the targets of the first.
Restart ==
    /\ pc = "done"
    /\ run < runs
    /\ first' = result
    /\ run' = run + 1
    /\ i' = 1
    /\ ts' = 0
    /\ group' = <<>>
    /\ eq' = cfg.InitialEquity
    /\ peak' = cfg.InitialEquity
    /\ maxDD' = RZero
    /\ states' = [k \in Insts |-> NewInstState]
    /\ curve' = <<>>
    /\ trades' = <<>>
    /\ sumRet' = ROne
    /\ targets' = <<>>
    /\ pc' = "begin"
    /\ ra' = NewRiskAdapter
    /\ result' = NoResult
    /\ trace' = <<>>
    /\ pendingSrc' = [k \in Insts |-> 0]
    /\ fills' = <<>>
    /\ start' = [states |-> states', eq |-> eq', ra |-> ra']
    /\ glog' = <<>>
    /\ UNCHANGED <<riskVars, gridVars, stratVars, runnerVars, cfg, hasRisk, all, runs, script, rangeSeen>>

Next ==
    \/ BeginGroup
    \/ AccumulateReturn
    \/ PropagateCandles
    \/ CollectSignals
    \/ ApproveAndSchedule
    \/ ApplyReturn
    \/ ApplyDuePendings
    \/ RollState
    \/ RecordEquity
    \/ Finish

Spec == Init /\ [][Next]_vars

\* ------------------------------------------------------------------------
\* RiskAdapter driven on its own: any sequence of OnCandle and Approve calls
\* ------------------------------------------------------------------------
MaxRiskCalls == 3

\* Settings after RiskConfig.applyDefaults: all positive.
RiskConfigs ==
    {[KernelRiskConfig EXCEPT !.MaxAbsPosition = a, !.MaxLeverage = l] :
        a \in {Rat(1, 2), ROne, RInt(2)}, l \in {Rat(1, 2), ROne, RInt(2)}}

ApproveTargets == {RInt(-2), RInt(-1), RZero, ROne, RInt(2)}

KernelIdle(n) ==
    InitRun({c \in RawConfigs : ~c.TradeOnNextBar /\ c.Hooks = "none"}, {FALSE},
            {[k \in Insts |-> <<>>]}, n, "idle")

\* The adapter before its first call, under one of the given settings.
InitAdapter(configs) ==
    /\ KernelIdle(1)
    /\ RunnerIdle
    /\ GridIdle
    /\ riskCfg \in configs
    /\ adapter = NewRiskAdapter
    /\ approveLog = <<>>
    /\ calls = 0
    /\ ddLog = <<>>
    /\ summary = <<>>

InitRisk == InitAdapter(RiskConfigs)

\* dd >= threshold as evaluateDrawdown computes it.
ddOver(a, rc) ==
    LET pk == IF RLe(a.peakEquity, RZero) THEN ROne ELSE a.peakEquity
    IN  RLe(rc.DDThreshold, RDiv(RSub(pk, a.equity), pk))

\* A call of OnCandle with a bar of one of the instruments; the call is logged
\* with whether it activated the drawdown circuit.
OnCandleCall(insts, maxCalls) ==
    /\ pc = "idle"
    /\ gridPc = "idle"
    /\ calls < maxCalls
    /\ \E inst \in insts, c \in PriceLevels :
          LET t == TsOf(calls + 1)
              after == RiskOnCandle(adapter, riskCfg, MkCandle(inst, t, c))
          IN  /\ adapter' = after
              /\ ddLog' = Append(ddLog, [kind |-> "candle", ts |-> t,
                                         trig |-> after.ddStart = t,
                                         over |-> ddOver(after, riskCfg),
                                         scaler |-> after.ddScaler])
    /\ calls' = calls + 1
    /\ UNCHANGED <<kernelVars, gridVars, riskCfg, approveLog, summary>>

ApproveCall(insts, tgts, maxCalls) ==
    /\ pc = "idle"
    /\ gridPc = "idle"
    /\ calls < maxCalls
    /\ \E inst \in insts, target \in tgts, price \in PriceLevels :
       \E current \in {RZero, adapter.states[inst].position} :
          LET r == RiskApprove(adapter, riskCfg, inst, current, target, RInt(price), 0)
          IN  /\ adapter' = r.ra
              /\ approveLog' = <<[inst |-> inst, current |-> current, target |-> target,
                                  approved |-> r.approved, acts |-> r.acts]>>
    /\ ddLog' = Append(ddLog, [kind |-> "approve", ts |-> adapter.lastTs,
                               trig |-> FALSE, over |-> FALSE,
                               scaler |-> adapter.ddScaler])
    /\ calls' = calls + 1
    /\ UNCHANGED <<kernelVars, gridVars, riskCfg, summary>>

AdapterOnCandle == OnCandleCall(Insts, MaxRiskCalls)

AdapterApprove == ApproveCall(Insts, ApproveTargets, MaxRiskCalls)

SummaryCall(maxCalls) ==
    /\ pc = "idle"
    /\ gridPc = "idle"
    /\ calls < maxCalls
    /\ \E out \in {Summary(adapter)} :
          /\ adapter' = out.ra
          /\ summary' = out.DDWindows
    /\ ddLog' = Append(ddLog, [kind |-> "summary", ts |-> adapter.lastTs,
                               trig |-> FALSE, over |-> FALSE,
                               scaler |-> adapter.ddScaler])
    /\ calls' = calls + 1
    /\ UNCHANGED <<kernelVars, gridVars, riskCfg, approveLog>>

NextRisk ==
    \/ AdapterOnCandle
    \/ AdapterApprove

SpecRisk == InitRisk /\ [][NextRisk]_vars

\* ------------------------------------------------------------------------
\* The drawdown circuit: candles, approvals and summaries in any order
\* ------------------------------------------------------------------------
MaxCircuitCalls == 6
MaxCooldownBars == 3

CircuitConfigs ==
    {[KernelRiskConfig EXCEPT !.DDCooldownBars = n] : n \in 1..MaxCooldownBars}

CircuitTargets == {RZero, ROne}

InitCircuit == InitAdapter(CircuitConfigs)

CircuitOnCandle == OnCandleCall(Insts, MaxCircuitCalls)

\* Positions are taken in one instrument; candles arrive for both.
CircuitApprove == ApproveCall({"A"}, CircuitTargets, MaxCircuitCalls)

CircuitSummary == SummaryCall(MaxCircuitCalls)

NextCircuit ==
    \/ CircuitOnCandle
    \/ CircuitApprove
    \/ CircuitSummary

SpecCircuit == InitCircuit /\ [][NextCircuit]_vars

\* ------------------------------------------------------------------------
\* The drawdown circuit as the kernel feeds it: the candles of one timestamp
\* group carry the same timestamp
\* ------------------------------------------------------------------------
MaxWindowCalls == 5

InitWindows == InitAdapter(CircuitConfigs)

\* A call of OnCandle with a bar of one of the instruments, at the timestamp of
\* the bar before it or at the next one; the call is logged with the cooldown
\* and the window start before and after it.
WindowsOnCandle ==
    /\ pc = "idle"
    /\ gridPc = "idle"
    /\ calls < MaxWindowCalls
    /\ \E inst \in Insts, c \in PriceLevels,
          t \in {adapter.lastTs, adapter.lastTs + 1} \ {0} :
          \E after \in {RiskOnCandle(adapter, riskCfg, MkCandle(inst, t, c))} :
              /\ adapter' = after
              /\ ddLog' = Append(ddLog, [kind |-> "candle", ts |-> t,
                                         trig |-> /\ adapter.ddCooldown = 0
                                                  /\ \/ after.ddCooldown # 0
                                                     \/ Len(after.ddEvents)
                                                           > Len(adapter.ddEvents),
                                         over |-> ddOver(after, riskCfg),
                                         scaler |-> after.ddScaler,
                                         cooldown |-> adapter.ddCooldown,
                                         cooldownAfter |-> after.ddCooldown,
                                         ddStart |-> adapter.ddStart,
                                         ddStartAfter |-> after.ddStart])
    /\ calls' = calls + 1
    /\ UNCHANGED <<kernelVars, gridVars, riskCfg, approveLog, summary>>

WindowsApprove == ApproveCall({"A"}, CircuitTargets, MaxWindowCalls)

NextWindows ==
    \/ WindowsOnCandle
    \/ WindowsApprove

SpecWindows == InitWindows /\ [][NextWindows]_vars

\* ------------------------------------------------------------------------
\* Volatility targeting: applyVolTarget on the adapter as candles, approvals
\* and the drawdown circuit leave it
\* ------------------------------------------------------------------------
MaxVolCalls == 3

\* Settings after RiskConfig.applyDefaults: all positive.
VolConfigs ==
    {[KernelRiskConfig EXCEPT !.RiskTarget = r, !.MaxLeverage = l] :
        r \in {RInt(3), RInt(6)}, l \in {ROne, RInt(2), RInt(8)}}

VolTargets == {RNeg(ROne), RZero, Rat(1, 2), ROne}

\* Prices: none, below and above the ATR, and one that makes atr/price < 1e-6.
VolPrices == {RZero, Rat(1, 2), ROne, RInt(4), RInt(4000000)}

InitVol == InitAdapter(VolConfigs)

VolOnCandle == OnCandleCall({"A"}, MaxVolCalls)

VolApprove == ApproveCall({"A"}, CircuitTargets, MaxVolCalls)

\* A call of applyVolTarget; it is logged with the ATR and the scaler it read.
VolTargetCall ==
    /\ pc = "idle"
    /\ gridPc = "idle"
    /\ \E inst \in {"A"}, target \in VolTargets, price \in VolPrices :
          approveLog' = <<[inst |-> inst, target |-> target, price |-> price,
                           atr |-> adapter.states[inst].atr,
                           ddScaler |-> adapter.ddScaler,
                           result |-> applyVolTarget(adapter, riskCfg, target, price,
                                                     adapter.states[inst])]>>
    /\ UNCHANGED <<kernelVars, gridVars, riskCfg, adapter, calls, ddLog, summary>>

NextVol ==
    \/ VolOnCandle
    \/ VolApprove
    \/ VolTargetCall

SpecVol == InitVol /\ [][NextVol]_vars

\* ------------------------------------------------------------------------
\* The ATR stops: candles and approvals of one instrument, long and short, with
\* stop and trail multiples of 1 and 2
\* ------------------------------------------------------------------------
MaxStopCalls == 4

StopConfigs ==
    {[KernelRiskConfig EXCEPT !.ATRStopK = k, !.ATRTrailK = j] :
        k \in {ROne, RInt(2)}, j \in {ROne, RInt(2)}}

StopTargets == {RNeg(ROne), RZero, ROne}

StopPrices == {RZero, ROne, RInt(4)}

InitStops == InitAdapter(StopConfigs)

StopsOnCandle == OnCandleCall({"A"}, MaxStopCalls)

\* A call of Approve; it is logged with the tracked state and the stop counts
\* it found.
StopsApprove ==
    /\ pc = "idle"
    /\ gridPc = "idle"
    /\ calls < MaxStopCalls
    /\ \E inst \in {"A"}, target \in StopTargets, price \in StopPrices :
       \E current \in {RZero, adapter.states[inst].position} :
          LET r == RiskApprove(adapter, riskCfg, inst, current, target, price, 0)
          IN  /\ adapter' = r.ra
              /\ approveLog' = <<[inst |-> inst, current |-> current, target |-> target,
                                  price |-> price, st |-> adapter.states[inst],
                                  stopCounts |-> adapter.stopCounts,
                                  approved |-> r.approved, acts |-> r.acts]>>
    /\ calls' = calls + 1
    /\ UNCHANGED <<kernelVars, gridVars, riskCfg, ddLog, summary>>

NextStops ==
    \/ StopsOnCandle
    \/ StopsApprove

SpecStops == InitStops /\ [][NextStops]_vars

\* ------------------------------------------------------------------------
\* BacktestRunner.runGridSearch (main.go)
\* ------------------------------------------------------------------------
\* How many of the choices of the trend, mean-reversion and breakout gains the
\* model enumerates; the four remaining dimensions are held at their first value.
MaxTrendChoices == 2
MaxMRChoices == 2
MaxBreakoutChoices == 1

defaultGridSampleSize == 60

Take(q, n) == SubSeq(q, 1, IF n < Len(q) THEN n ELSE Len(q))

GridChoices ==
    <<Take(<<Rat(12, 10), Rat(15, 10), Rat(18, 10), RInt(2)>>, MaxTrendChoices),
      Take(<<Rat(5, 10), Rat(7, 10), ROne>>, MaxMRChoices),
      Take(<<Rat(8, 10), ROne, Rat(12, 10)>>, MaxBreakoutChoices),
      Take(<<Rat(45, 100), Rat(55, 100), Rat(65, 100)>>, 1),
      Take(<<RInt(2), Rat(25, 10), RInt(3)>>, 1),
      Take(<<Rat(25, 10), RInt(3), Rat(35, 10)>>, 1),
      Take(<<Rat(9, 10), ROne, Rat(11, 10)>>, 1)>>

\* The nested loops over the first d dimensions, innermost last.
RECURSIVE GridProduct(_)
GridProduct(d) ==
    IF d = 0 THEN << <<>> >>
    ELSE LET prev == GridProduct(d - 1)
             lst == GridChoices[d]
         IN  [k \in 1..(Len(prev) * Len(lst)) |->
                 Append(prev[((k - 1) \div Len(lst)) + 1], lst[((k - 1) % Len(lst)) + 1])]

generateParamSets ==
    LET tuples == GridProduct(7)
    IN  [k \in 1..Len(tuples) |->
            [TrendGain |-> tuples[k][1], MRGain |-> tuples[k][2],
             BreakoutGain |-> tuples[k][3], RiskTarget |-> tuples[k][4],
             ATRStop |-> tuples[k][5], ATRTrail |-> tuples[k][6],
             RegimeMul |-> tuples[k][7]]]

\* A *bool is "nil", "true" or "false".
boolValue(b, d) == IF b = "nil" THEN d ELSE b = "true"

\* OptimizationConfig.applyDefaults.
applyDefaultsOptimization(o) ==
    [Enable |-> IF o.Enable = "nil" THEN "true" ELSE o.Enable,
     MaxSamples |-> IF o.MaxSamples <= 0 THEN defaultGridSampleSize ELSE o.MaxSamples,
     Seed |-> IF o.Seed = 0 THEN 42 ELSE o.Seed]

RawOptimizations ==
    [Enable : {"nil", "true", "false"}, MaxSamples : -1..5, Seed : {0, 1, 7}]

\* The seeded generator: a linear congruential sequence stands for math/rand.
RngModulus == 65537

rngSeed(seed) == seed % RngModulus

rngNext(x) == (x * 75 + 74) % RngModulus

Swap(q, a, b) == [q EXCEPT ![a] = q[b], ![b] = q[a]]

\* rng.Shuffle: from the last place down, swap with a drawn place at or below.
RECURSIVE ShuffleFrom(_, _, _)
ShuffleFrom(q, n, x) ==
    IF n <= 1 THEN q
    ELSE LET x1 == rngNext(x)
         IN  ShuffleFrom(Swap(q, n, (x1 % n) + 1), n - 1, x1)

Shuffle(q, seed) == ShuffleFrom(q, Len(q), rngSeed(seed))

\* Variant that ignores max_samples.
sampleSizeAll(o, n) == n

sampleSize(o, n) == IF o.MaxSamples > 0 /\ o.MaxSamples < n THEN o.MaxSamples ELSE n

calcCalmar(cagr, maxDDv) == RDiv(cagr, RMax(maxDDv, Rat(1, 1000000)))

\* engine.Run(series) under a parameter set: a function of the parameters and
\* of the series; metricSalt picks the function (0: every run scores alike).
RunMetrics(p, salt) ==
    LET h == (p.TrendGain[1] * 7 + p.MRGain[1] * 3 + p.RegimeMul[1]) * salt
    IN  [CAGR |-> Rat((h % 5) - 2, 10), MaxDD |-> Rat(h % 3, 10),
         Sharpe |-> RInt(h % 2), FinalEquity |-> RAdd(ROne, Rat((h % 5) - 2, 10))]

gridEntryOf(p, res) ==
    [TrendGain |-> p.TrendGain, MRGain |-> p.MRGain, BreakoutGain |-> p.BreakoutGain,
     RiskTarget |-> p.RiskTarget, ATRStop |-> p.ATRStop, ATRTrail |-> p.ATRTrail,
     RegimeMul |-> p.RegimeMul, CAGR |-> res.CAGR, MaxDD |-> res.MaxDD,
     Sharpe |-> res.Sharpe, Calmar |-> calcCalmar(res.CAGR, res.MaxDD),
     FinalEquity |-> res.FinalEquity]

\* Variant that ranks by calmar ascending.
entryLessAscending(a, b) ==
    IF a.Calmar = b.Calmar THEN RLt(b.Sharpe, a.Sharpe) ELSE RLt(a.Calmar, b.Calmar)

\* The less function handed to sort.Slice.
entryLess(a, b) ==
    IF a.Calmar = b.Calmar THEN RLt(b.Sharpe, a.Sharpe) ELSE RLt(b.Calmar, a.Calmar)

\* bestEntry as the loop of runGridSearch leaves it: the first of the entries
\* with the highest calmar (every calmar is finite, so the first entry always
\* exceeds the initial -Inf); the empty sequence when no set was run.
RECURSIVE bestEntry(_)
bestEntry(q) ==
    IF Len(q) <= 1 THEN q
    ELSE LET best == bestEntry(SubSeq(q, 1, Len(q) - 1))
         IN  IF RLt(best[1].Calmar, q[Len(q)].Calmar) THEN <<q[Len(q)]>> ELSE best

\* composeReport: the best candidate and the counts it prints; no report when
\* nothing was sampled.
composeReport(best, sampled, total) ==
    IF sampled = 0 THEN <<>>
    ELSE [best |-> best[1], sampled |-> sampled, total |-> total]

\* sort.Slice on a short slice is an insertion sort.
RECURSIVE InsertEntry(_, _)
InsertEntry(sorted, x) ==
    IF sorted = <<>> THEN <<x>>
    ELSE LET l == sorted[Len(sorted)]
         IN  IF entryLess(x, l)
             THEN Append(InsertEntry(SubSeq(sorted, 1, Len(sorted) - 1), x), l)
             ELSE Append(sorted, x)

RECURSIVE sortSlice(_)
sortSlice(q) ==
    IF q = <<>> THEN <<>>
    ELSE InsertEntry(sortSlice(SubSeq(q, 1, Len(q) - 1)), q[Len(q)])

\* Under 5 several runs share a calmar and differ in Sharpe.
MetricSalts == {0, 1, 2, 5}

\* The tuple of a configuration that leaves every tunable to normalize: it is
\* not a combination of the grid.
NormalizedParams ==
    [TrendGain |-> RInt(3), MRGain |-> Rat(3, 10), BreakoutGain |-> ROne,
     RiskTarget |-> ROne, ATRStop |-> Rat(25, 10), ATRTrail |-> RInt(3),
     RegimeMul |-> ROne]

\* Baseline runs: configured with a combination of the grid or not, with the
\* portfolio layer wired or not.
Baselines ==
    [Params : {generateParamSets[k] : k \in 1..Len(generateParamSets)}
                 \cup {NormalizedParams},
     UsePortfolio : BOOLEAN]

\* Result of br.backtest.Run(series): the run a grid entry with the same tuple
\* repeats, unless the portfolio layer (never wired in the search) is wired.
BaselineResult ==
    RunMetrics(baseline.Params,
               IF baseline.UsePortfolio THEN metricSalt + 1 ELSE metricSalt)

InitSearch(n) ==
    /\ KernelIdle(n)
    /\ RunnerIdle
    /\ RiskIdle
    /\ optimization \in {applyDefaultsOptimization(o) : o \in RawOptimizations}
    /\ metricSalt \in MetricSalts
    /\ baseline \in Baselines
    /\ sets = <<>>
    /\ entries = <<>>
    /\ leaderboard = <<>>
    /\ firstBoard = <<>>
    /\ gridPc = "start"
    /\ report = <<>>

InitGrid == InitSearch(1)

\* Optimization disabled: runGridSearch returns nil at once.
GridDisabled ==
    /\ gridPc = "start"
    /\ ~boolValue(optimization.Enable, TRUE)
    /\ leaderboard' = <<>>
    /\ report' = <<>>
    /\ gridPc' = "returned"
    /\ UNCHANGED <<kernelVars, riskVars, optimization, metricSalt, baseline, sets, entries,
                   firstBoard>>

GridShuffle ==
    /\ gridPc = "start"
    /\ boolValue(optimization.Enable, TRUE)
    /\ Len(generateParamSets) # 0
    /\ sets' = Shuffle(generateParamSets, optimization.Seed)
    /\ entries' = <<>>
    /\ gridPc' = "loop"
    /\ UNCHANGED <<kernelVars, riskVars, optimization, metricSalt, baseline, leaderboard,
                   firstBoard, report>>

\* One turn of the loop: run the engine under the next set, append its entry.
GridSample ==
    /\ gridPc = "loop"
    /\ Len(entries) < sampleSize(optimization, Len(sets))
    /\ LET params == sets[Len(entries) + 1]
       IN  entries' = Append(entries, gridEntryOf(params, RunMetrics(params, metricSalt)))
    /\ UNCHANGED <<kernelVars, riskVars, optimization, metricSalt, baseline, sets, leaderboard,
                   firstBoard, gridPc, report>>

GridRank ==
    /\ gridPc = "loop"
    /\ Len(entries) >= sampleSize(optimization, Len(sets))
    /\ leaderboard' = sortSlice(entries)
    /\ report' = composeReport(bestEntry(entries), Len(entries), Len(sets))
    /\ gridPc' = "returned"
    /\ UNCHANGED <<kernelVars, riskVars, optimization, metricSalt, baseline, sets, entries,
                   firstBoard>>

NextGrid ==
    \/ GridDisabled
    \/ GridShuffle
    \/ GridSample
    \/ GridRank

SpecGrid == InitGrid /\ [][NextGrid]_vars

\* ------------------------------------------------------------------------
\* Two executions on the same inputs: the kernel twice, or the search twice
\* ------------------------------------------------------------------------
\* A second grid search with the same configuration, seed and series.
SearchAgain ==
    /\ gridPc = "returned"
    /\ run < runs
    /\ firstBoard' = leaderboard
    /\ run' = run + 1
    /\ sets' = <<>>
    /\ entries' = <<>>
    /\ leaderboard' = <<>>
    /\ report' = <<>>
    /\ gridPc' = "start"
    /\ UNCHANGED <<riskVars, stratVars, runnerVars, optimization, metricSalt, baseline, cfg, hasRisk, all, i, ts, group,
                   eq, peak, maxDD, states, curve, trades, sumRet, targets, pc, ra,
                   result, trace, pendingSrc, fills, start, glog, runs, script, first,
                   rangeSeen>>

InitTwice ==
    \/ /\ InitRun({c \in RawConfigs : c.Hooks = "none"}, {TRUE}, Layouts, 2, "begin")
       /\ RunnerIdle
       /\ RiskIdle
       /\ GridIdle
    \/ InitSearch(2)

NextTwice ==
    \/ Next
    \/ Restart
    \/ NextGrid
    \/ SearchAgain

SpecTwice == InitTwice /\ [][NextTwice]_vars

\* ------------------------------------------------------------------------
\* StrategyAdapter (strategy_adapter.go) and its numeric helpers (main.go)
\* ------------------------------------------------------------------------
RangeOf(lo, hi) == lo..hi

\* The element of a singleton: The({f(x) : x \in {e}}) is f(e) with e computed once.
The(S) == CHOOSE r \in S : TRUE

RECURSIVE RSum(_, _, _)
RSum(a, lo, hi) ==
    IF lo > hi THEN RZero
    ELSE IF lo = hi THEN a[lo]
    ELSE LET mid == (lo + hi) \div 2
         IN  RAdd(RSum(a, lo, mid), RSum(a, mid + 1, hi))

\* Square root of a rational whose numerator and denominator are squares.
RSqrt(x) == <<ISqrt(x[1]), ISqrt(x[2])>>

smaLast(a, n) ==
    IF n <= 0 \/ Len(a) < n THEN a[Len(a)]
    ELSE RDiv(RSum(a, Len(a) - n + 1, Len(a)), RInt(n))

stdLast(a, n) ==
    IF n <= 1 \/ Len(a) < n THEN RZero
    ELSE The({RSqrt(RDiv(RSum([k \in 1..Len(a) |-> RMul(RSub(a[k], mean), RSub(a[k], mean))],
                              Len(a) - n + 1, Len(a)),
                         RInt(n - 1))) :
                mean \in {RDiv(RSum(a, Len(a) - n + 1, Len(a)), RInt(n))}})

maxLast(a, n) ==
    IF Len(a) = 0 THEN RZero
    ELSE LET m == IF n > Len(a) THEN Len(a) ELSE n
             S == {a[k] : k \in RangeOf(Len(a) - m + 1, Len(a))}
         IN  CHOOSE v \in S : \A w \in S : RLe(w, v)

minLast(a, n) ==
    IF Len(a) = 0 THEN RZero
    ELSE LET m == IF n > Len(a) THEN Len(a) ELSE n
             S == {a[k] : k \in RangeOf(Len(a) - m + 1, Len(a))}
         IN  CHOOSE v \in S : \A w \in S : RLe(v, w)

maxInts(a, b) == IF a > b THEN a ELSE b

appendWithLimit(win, v, limit) ==
    LET w == Append(win, v)
    IN  IF limit > 0 /\ Len(w) > limit THEN SubSeq(w, Len(w) - limit + 1, Len(w)) ELSE w

RECURSIVE emaFrom(_, _, _, _)
emaFrom(vals, k, ema, alpha) ==
    IF k > Len(vals) THEN ema
    ELSE The({emaFrom(vals, k + 1, next, alpha) :
                next \in {RAdd(RMul(alpha, vals[k]), RMul(RSub(ROne, alpha), ema))}})

emaLast(vals, period) ==
    IF Len(vals) = 0 THEN RZero
    ELSE IF period <= 1 THEN vals[Len(vals)]
    ELSE LET p == IF period > Len(vals) THEN Len(vals) ELSE period
         IN  emaFrom(vals, Len(vals) - p + 2, vals[Len(vals) - p + 1], Rat(2, p + 1))

softsign(x) == IF x = RZero THEN RZero ELSE RDiv(x, RAdd(ROne, RAbs(x)))

Regimes == {"trending", "ranging", "neutral"}

warmupBars == 50

historyLimit == 3000

newStrategyState ==
    [closes |-> <<>>, highs |-> <<>>, lows |-> <<>>,
     mtfFast |-> RZero, mtfSlow |-> RZero, lastClose |-> RZero]

\* NewStrategyAdapter; adx is the reading the ADX trackers give on the series.
NewStrategyAdapter(higherTF, barMin, adx) ==
    [barMinutes |-> barMin,
     higherTFMinutes |-> IF higherTF <= 0 THEN barMin ELSE higherTF,
     states |-> [n \in Insts |-> newStrategyState],
     adx |-> adx,
     mtfChecks |-> 0, mtfAligned |-> 0, mtfFiltered |-> 0, fallbackUse |-> 0,
     regimeCounts |-> [r \in Regimes |-> 0]]

\* strategyState.update
strategyUpdate(st, c, baseTF, higherTF) ==
    LET ratio == higherTF \div maxInts(1, baseTF)
        fastPeriod == maxInts(4 * ratio, 8)
        slowPeriod == maxInts(8 * ratio, 16)
    IN  [st EXCEPT !.closes = appendWithLimit(@, RInt(c.C), historyLimit),
                   !.highs = appendWithLimit(@, RInt(c.H), historyLimit),
                   !.lows = appendWithLimit(@, RInt(c.L), historyLimit),
                   !.mtfFast = emaUpdate(@, RInt(c.C), fastPeriod),
                   !.mtfSlow = emaUpdate(@, RInt(c.C), slowPeriod),
                   !.lastClose = RInt(c.C)]

rangeBandwidth(st, period) ==
    IF Len(st.closes) < period \/ period <= 0 THEN RZero
    ELSE The({LET upper == RAdd(mean, RMul(RInt(2), std))
                  lower == RSub(mean, RMul(RInt(2), std))
              IN  IF RLe(mean, RZero) THEN RZero
                  ELSE IF RLe(upper, lower) THEN RZero
                  ELSE RDiv(RSub(upper, lower), mean) :
                mean \in {smaLast(st.closes, period)},
                std \in {stdLast(st.closes, period)}})

computeTrendSignal(st) ==
    The({IF slow = RZero THEN RZero ELSE softsign(RDiv(RSub(fast, slow), slow)) :
           fast \in {emaLast(st.closes, 8)}, slow \in {emaLast(st.closes, 32)}})

computeMeanReversionSignal(sc, st) ==
    LET period == nonZeroOr(sc.RangeBwPeriod, 20)
    IN  IF Len(st.closes) < period THEN RZero
        ELSE The({IF RLe(std, RZero) THEN RZero
                  ELSE RNeg(softsign(RDiv(RSub(st.closes[Len(st.closes)], mean), std))) :
                    mean \in {smaLast(st.closes, period)},
                    std \in {stdLast(st.closes, period)}})

\* The 1e-9 added to hi - lo in the divisor is below the resolution of the model;
\* the divisor is reached only with lo < price < hi.
computeBreakoutSignal(sc, st) ==
    LET lookback == 2 * nonZeroOr(sc.RangeBwPeriod, 20)
        price == st.closes[Len(st.closes)]
    IN  IF Len(st.highs) < lookback \/ Len(st.lows) < lookback THEN RZero
        ELSE The({LET mid == RDiv(RAdd(hi, lo), RInt(2))
                  IN  IF RLe(hi, price) THEN ROne
                      ELSE IF RLe(price, lo) THEN RNeg(ROne)
                      ELSE IF mid = RZero THEN RZero
                      ELSE softsign(RDiv(RSub(price, mid), RSub(hi, lo))) :
                    hi \in {maxLast(st.highs, lookback)},
                    lo \in {minLast(st.lows, lookback)}})

detectRegime(sc, st, adx) ==
    LET bw == rangeBandwidth(st, nonZeroOr(sc.RangeBwPeriod, 20))
    IN  IF ~boolValue(sc.RegimeEnable, TRUE) THEN "neutral"
        ELSE IF RLe(sc.TrendAdxTh, adx) THEN "trending"
        ELSE IF RLt(RZero, bw) /\ RLe(bw, sc.RangeBwTh) THEN "ranging"
        ELSE "neutral"

\* Variant that returns the gains unscaled in every regime.
computeWeightsUnscaled(sc, regime) ==
    [trend |-> nonZeroOrFloat(sc.TrendGain, RInt(2)),
     mr |-> nonZeroOrFloat(sc.MRGain, Rat(7, 10)),
     breakout |-> nonZeroOrFloat(sc.BreakoutGain, ROne)]

computeWeights(sc, regime) ==
    LET trend == nonZeroOrFloat(sc.TrendGain, RInt(2))
        mr == nonZeroOrFloat(sc.MRGain, Rat(7, 10))
        breakout == nonZeroOrFloat(sc.BreakoutGain, ROne)
    IN  CASE regime = "trending" ->
               [trend |-> RMul(trend, Rat(135, 100)), mr |-> RMul(mr, Rat(65, 100)),
                breakout |-> RMul(breakout, Rat(125, 100))]
          [] regime = "ranging" ->
               [trend |-> RMul(trend, Rat(6, 10)), mr |-> RMul(mr, Rat(15, 10)),
                breakout |-> RMul(breakout, Rat(6, 10))]
          [] OTHER -> [trend |-> trend, mr |-> mr, breakout |-> breakout]

\* multiTimeframeScaler: the scaler and what it counts.
multiTimeframeScaler(sc, trendSignal, st) ==
    LET diff == RSub(st.mtfFast, st.mtfSlow)
        idle == [scaler |-> ROne, checks |-> 1, aligned |-> 0, filtered |-> 0]
    IN  IF ~boolValue(sc.MTFConfirmEnable, TRUE)
        THEN [scaler |-> ROne, checks |-> 0, aligned |-> 0, filtered |-> 0]
        ELSE IF st.mtfFast = RZero \/ st.mtfSlow = RZero THEN idle
        ELSE IF diff = RZero \/ trendSignal = RZero THEN idle
        ELSE IF boolValue(sc.MTFTrendAlign, TRUE)
             THEN IF RLt(RMul(diff, trendSignal), RZero)
                  THEN [scaler |-> Rat(6, 10), checks |-> 1, aligned |-> 0, filtered |-> 1]
                  ELSE [scaler |-> Rat(125, 100), checks |-> 1, aligned |-> 1, filtered |-> 0]
        ELSE idle

\* Variant that lets the fallback through in a strong regime too.
shouldUseFallbackAnyRegime(sc, pos, strong) ==
    IF ~boolValue(sc.FallbackEnable, TRUE) THEN FALSE
    ELSE RLt(RAbs(pos), Rat(1, 10))

shouldUseFallback(sc, pos, strong) ==
    IF ~boolValue(sc.FallbackEnable, TRUE) THEN FALSE
    ELSE IF strong THEN FALSE
    ELSE RLt(RAbs(pos), Rat(1, 10))

computeFallbackSignal(sc, st) ==
    LET period == nonZeroOr(sc.FallbackMAPeriod, 100)
        price == st.closes[Len(st.closes)]
        scale == nonZeroOrFloat(sc.FallbackScale, Rat(25, 100))
    IN  IF Len(st.closes) < period THEN RZero
        ELSE The({IF RLt(ma, price) THEN scale
                  ELSE IF RLt(price, ma) THEN RNeg(scale)
                  ELSE RZero :
                    ma \in {smaLast(st.closes, period)}})

strategyMaxAbsPosition(rc) ==
    IF rc.MaxAbsPosition[1] > 0 THEN rc.MaxAbsPosition ELSE ROne

\* Variant that labels by the largest absolute value of the four components.
dominantComponentArgmax(trend, mr, breakout, fallback) ==
    LET top == RMax(RMax(RAbs(trend), RAbs(mr)), RMax(RAbs(breakout), RAbs(fallback)))
    IN  IF RAbs(trend) = top THEN "trend"
        ELSE IF RAbs(mr) = top THEN "mr"
        ELSE IF RAbs(breakout) = top THEN "breakout"
        ELSE "fallback"

dominantComponent(trend, mr, breakout, fallback) ==
    IF fallback # RZero THEN "fallback"
    ELSE IF RLt(RMax(RAbs(trend), RAbs(mr)), RAbs(breakout)) THEN "breakout"
    ELSE IF RLt(RAbs(trend), RAbs(mr)) THEN "mr"
    ELSE "trend"

\* OnCandle from the component signals on: the weights, the fallback gate, the
\* clamp and the signal. fb is what computeFallbackSignal returns if it is called.
composeTarget(sc, rc, sad, inst, trendSignal, mrSignal, breakoutSignal, regime, mtf, fb) ==
    LET strongSignal == IF ~boolValue(sc.FallbackEnable, TRUE) THEN TRUE
                        ELSE regime \in {"trending", "ranging"}
        maxAbs == strategyMaxAbsPosition(rc)
        componentsOf(weights) ==
            [trend |-> RMul(RMul(weights.trend, trendSignal), mtf.scaler),
             mr |-> RMul(RMul(weights.mr, mrSignal), mtf.scaler),
             breakout |-> RMul(RMul(weights.breakout, breakoutSignal), mtf.scaler)]
        outcome(parts, raw, gate, fallbackComponent, posRaw, pos) ==
            [sa |-> [sad EXCEPT !.regimeCounts[regime] = @ + 1,
                                !.mtfChecks = @ + mtf.checks,
                                !.mtfAligned = @ + mtf.aligned,
                                !.mtfFiltered = @ + mtf.filtered,
                                !.fallbackUse = IF fallbackComponent # RZero THEN @ + 1 ELSE @],
             sigs |-> IF RLt(RAbs(pos), Rat(1, 10000)) THEN <<>>
                      ELSE <<[InstID |-> inst,
                              Side |-> IF RLt(RZero, pos) THEN "buy" ELSE "sell",
                              Size |-> RAbs(pos)]>>,
             regime |-> regime, raw |-> raw, strong |-> strongSignal, gate |-> gate,
             fallback |-> fallbackComponent, posRaw |-> posRaw, parts |-> parts,
             sub |-> dominantComponent(parts.trend, parts.mr, parts.breakout,
                                       fallbackComponent)]
    IN  The({The({The({The({The({outcome(parts, raw, gate, fallbackComponent, posRaw, pos) :
                                   pos \in {clamp(posRaw, RNeg(maxAbs), maxAbs)}}) :
                              fallbackComponent \in {IF gate THEN fb ELSE RZero},
                              posRaw \in {RAdd(raw, IF gate THEN fb ELSE RZero)}}) :
                         gate \in {shouldUseFallback(sc, raw, strongSignal)}}) :
                    raw \in {RAdd(RAdd(parts.trend, parts.mr), parts.breakout)}}) :
               parts \in {componentsOf(computeWeights(sc, regime))}})

\* Variant that still returns nothing on the bar that completes the warm-up.
StrategyOnCandleLate(sc, rc, sad, c) ==
    The({IF Len(st.closes) <= warmupBars
         THEN [sa |-> [sad EXCEPT !.states[c.InstID] = st], sigs |-> <<>>]
         ELSE The({The({[sa |-> out.sa, sigs |-> out.sigs] :
                          out \in {composeTarget(sc, rc, [sad EXCEPT !.states[c.InstID] = st],
                                                 c.InstID, trendSignal,
                                                 computeMeanReversionSignal(sc, st),
                                                 computeBreakoutSignal(sc, st),
                                                 detectRegime(sc, st, sad.adx),
                                                 multiTimeframeScaler(sc, trendSignal, st),
                                                 computeFallbackSignal(sc, st))}}) :
                     trendSignal \in {computeTrendSignal(st)}}) :
           st \in {strategyUpdate(sad.states[c.InstID], c, sad.barMinutes,
                                  sad.higherTFMinutes)}})

\* StrategyAdapter.OnCandle: the adapter after the call and the signals.
StrategyOnCandle(sc, rc, sad, c) ==
    The({IF Len(st.closes) < warmupBars
         THEN [sa |-> [sad EXCEPT !.states[c.InstID] = st], sigs |-> <<>>]
         ELSE The({The({[sa |-> out.sa, sigs |-> out.sigs] :
                          out \in {composeTarget(sc, rc, [sad EXCEPT !.states[c.InstID] = st],
                                                 c.InstID, trendSignal,
                                                 computeMeanReversionSignal(sc, st),
                                                 computeBreakoutSignal(sc, st),
                                                 detectRegime(sc, st, sad.adx),
                                                 multiTimeframeScaler(sc, trendSignal, st),
                                                 computeFallbackSignal(sc, st))}}) :
                     trendSignal \in {computeTrendSignal(st)}}) :
           st \in {strategyUpdate(sad.states[c.InstID], c, sad.barMinutes,
                                  sad.higherTFMinutes)}})

\* ------------------------------------------------------------------------
\* BacktestRunner.Run on a flat series: the engine of buildBacktestEngine with
\* the regime strategy and the risk overlay wired, default configuration
\* ------------------------------------------------------------------------
MaxFlatBars == 200

FlatPrice == 100

timeframeMinutes == 15

higherTFMinutes == 60

\* Readings the ADX trackers may give on the series: below and at the threshold.
AdxReadings == {RZero, RInt(22)}

MkFlat(inst, t, c) == [InstID |-> inst, T |-> t, O |-> c, H |-> c, L |-> c, C |-> c]

FlatSeries(n) == [k \in 1..n |-> [InstID |-> "A", T |-> k * timeframeMinutes * 60 * 1000]]

\* The configuration loadConfig writes when no file exists.
DefaultStrategyConfig ==
    [TrendGain |-> Rat(18, 10), MRGain |-> Rat(8, 10), BreakoutGain |-> ROne,
     RegimeEnable |-> "true", TrendAdxTh |-> RInt(22), RangeBwPeriod |-> 20,
     RangeBwTh |-> Rat(6, 100), MTFConfirmEnable |-> "true", MTFTrendAlign |-> "true",
     FallbackEnable |-> "true", FallbackScale |-> Rat(2, 10), FallbackMAPeriod |-> 120]

DefaultRiskConfig ==
    [RiskTarget |-> Rat(55, 100), ATRPeriod |-> 14, ATRStopK |-> Rat(25, 10),
     ATRTrailK |-> RInt(3), MaxLeverage |-> RInt(2), MaxAbsPosition |-> Rat(15, 10),
     DDEnable |-> TRUE, DDThreshold |-> Rat(15, 100), DDCooldownBars |-> 96]

FlatStrategyConfigs ==
    {[DefaultStrategyConfig EXCEPT !.RegimeEnable = r, !.FallbackEnable = f] :
        r \in {"true", "false"}, f \in {"true", "false"}}

buildBacktestEngine(cash, rc, tfMin) ==
    [InitialEquity |-> cash, BarMinutes |-> tfMin, TradeOnNextBar |-> TRUE,
     UseMaker |-> FALSE, TakerFeeBps |-> RZero, MakerFeeBps |-> RZero,
     SlippageBps |-> RZero, MinRebalanceStep |-> RZero,
     MaxAbsPosition |-> nonZeroOrFloat(rc.MaxAbsPosition, ROne),
     \* the AfterFill hook logs the fill and returns (0, 0)
     Hooks |-> "none"]

InitFlat ==
    /\ InitRunOn({buildBacktestEngine(RInt(10000), DefaultRiskConfig, timeframeMinutes)},
                 {TRUE}, {FlatSeries(MaxFlatBars)}, 1, "begin")
    /\ RunnerIdle
    /\ stratCfg \in FlatStrategyConfigs
    /\ strat \in {NewStrategyAdapter(higherTFMinutes, timeframeMinutes, a) : a \in AdxReadings}
    /\ composed = <<>>
    /\ riskCfg = DefaultRiskConfig
    /\ adapter = NewRiskAdapter
    /\ approveLog = <<>>
    /\ calls = 0
    /\ ddLog = <<>>
    /\ summary = <<>>
    /\ GridIdle

FlatBeginGroup == BeginGroupOn(MkFlat, {FlatPrice})

RECURSIVE StrategyOnCandles(_, _, _, _)
StrategyOnCandles(sc, rc, acc, g) ==
    IF g = <<>> THEN acc
    ELSE The({StrategyOnCandles(sc, rc, [sa |-> out.sa, sigs |-> acc.sigs \o out.sigs],
                                Tail(g)) :
                out \in {StrategyOnCandle(sc, rc, acc.sa, g[1])}})

\* The targets map after the signals, in order, have been written into it.
TargetsOfSignals(c, sigs) ==
    [n \in {sigs[k].InstID : k \in 1..Len(sigs)} |->
        LET k == CHOOSE m \in 1..Len(sigs) :
                    /\ sigs[m].InstID = n
                    /\ \A o \in 1..Len(sigs) : sigs[o].InstID = n => o <= m
        IN  clamp(SignalValue(sigs[k].Side, sigs[k].Size),
                  RNeg(c.MaxAbsPosition), c.MaxAbsPosition)]

\* 2.3 with the regime strategy wired.
RegimeSignals ==
    /\ pc = "strategy"
    /\ \E out \in {StrategyOnCandles(stratCfg, riskCfg, [sa |-> strat, sigs |-> <<>>],
                                     group)} :
          /\ strat' = out.sa
          /\ targets' = TargetsOfSignals(cfg, out.sigs)
    /\ trace' = trace \o StepEvents("strategy_on_candle", group)
    /\ pc' = "approve"
    /\ UNCHANGED <<riskVars, gridVars, runnerVars, stratCfg, composed, runs, run, first, start,
                   glog, script, rangeSeen, cfg, hasRisk, all, i, ts, group, eq, peak, maxDD, states,
                   curve, trades, sumRet, ra, result, pendingSrc, fills>>

NextFlat ==
    \/ FlatBeginGroup
    \/ AccumulateReturn
    \/ PropagateCandles
    \/ RegimeSignals
    \/ ApproveAndSchedule
    \/ ApplyReturn
    \/ ApplyDuePendings
    \/ RollState
    \/ RecordEquity
    \/ Finish

SpecFlat == InitFlat /\ [][NextFlat]_vars

\* ------------------------------------------------------------------------
\* StrategyAdapter.OnCandle driven on its own, past the warm-up: any component
\* signals, regime, alignment and fallback reading
\* ------------------------------------------------------------------------
MaxComposeCalls == 2

\* Fallback switched on, off or left out; regime detection on.
ComposeStrategyConfigs ==
    {[DefaultStrategyConfig EXCEPT !.FallbackEnable = f] : f \in {"nil", "true", "false"}}

\* Trend signals around the point where the weighted sum reaches 0.1: with the
\* default gain 1.8 and an agreeing higher timeframe 2/45 gives exactly 0.1.
ComposeTrendSignals == {Rat(-1, 20), RZero, Rat(2, 45), Rat(1, 20)}

ComposeMRSignals == {RZero}

ComposeBreakoutSignals == {RZero, ROne}

\* What multiTimeframeScaler returns when the higher timeframe disagrees or agrees.
ComposeAlignments ==
    {[scaler |-> Rat(6, 10), checks |-> 1, aligned |-> 0, filtered |-> 1],
     [scaler |-> Rat(125, 100), checks |-> 1, aligned |-> 1, filtered |-> 0]}

\* What computeFallbackSignal may return under the configuration.
ComposeFallbacks(sc) ==
    LET scale == nonZeroOrFloat(sc.FallbackScale, Rat(25, 100))
    IN  {RNeg(scale), RZero, scale}

\* A StrategyAdapter built on one of the given configurations, before any call.
InitStrategyOn(configs) ==
    /\ InitRunOn({buildBacktestEngine(RInt(10000), DefaultRiskConfig, timeframeMinutes)},
                 {FALSE}, {<<>>}, 1, "idle")
    /\ RunnerIdle
    /\ GridIdle
    /\ riskCfg = DefaultRiskConfig
    /\ adapter = NewRiskAdapter
    /\ approveLog = <<>>
    /\ calls = 0
    /\ ddLog = <<>>
    /\ summary = <<>>
    /\ stratCfg \in configs
    /\ strat = NewStrategyAdapter(higherTFMinutes, timeframeMinutes, RZero)
    /\ composed = <<>>

InitCompose == InitStrategyOn(ComposeStrategyConfigs)

\* One OnCandle past the warm-up; the call is logged with the counter before it.
ComposeCall ==
    /\ pc = "idle"
    /\ strat.regimeCounts["trending"] + strat.regimeCounts["ranging"]
          + strat.regimeCounts["neutral"] < MaxComposeCalls
    /\ \E trendSignal \in ComposeTrendSignals, mrSignal \in ComposeMRSignals,
          breakoutSignal \in ComposeBreakoutSignals, regime \in Regimes,
          mtf \in ComposeAlignments, fb \in ComposeFallbacks(stratCfg) :
          LET out == composeTarget(stratCfg, riskCfg, strat, "A", trendSignal, mrSignal,
                                   breakoutSignal, regime, mtf, fb)
          IN  /\ strat' = out.sa
              /\ composed' = [regime |-> out.regime, raw |-> out.raw,
                              strong |-> out.strong, gate |-> out.gate,
                              fallback |-> out.fallback, posRaw |-> out.posRaw,
                              fb |-> fb, useBefore |-> strat.fallbackUse]
    /\ UNCHANGED <<riskVars, gridVars, runnerVars, stratCfg, runs, run, first, start, glog,
                   script, rangeSeen, cfg, hasRisk, all, i, ts, group, eq, peak, maxDD,
                   states, curve, trades, sumRet, targets, pc, ra, result, trace,
                   pendingSrc, fills>>

NextCompose == ComposeCall

SpecCompose == InitCompose /\ [][NextCompose]_vars

\* ------------------------------------------------------------------------
\* StrategyAdapter.OnCandle through the warm-up: flat bars of two instruments in
\* any interleaving, under breakout gains that give targets of either sign,
\* below, at and above the emission threshold and beyond the position limit
\* ------------------------------------------------------------------------
MaxWarmupBars == 52

\* The breakout gains; on a flat series the target is the breakout gain (trend
\* and mean reversion are 0 and the breakout signal is +1).
WarmupGains == {Rat(1, 20000), Rat(1, 10000), ROne, RInt(3)}

\* A bandwidth period of 9: the deviation of nine closes of which one is lower
\* by d is d/3.
WarmupConfigs ==
    {[DefaultStrategyConfig EXCEPT !.BreakoutGain = g, !.RangeBwPeriod = 9,
                                   !.RegimeEnable = "false",
                                   !.FallbackEnable = "false"] : g \in WarmupGains}

InitWarmup == InitStrategyOn(WarmupConfigs)

\* Bars the adapter has been fed of an instrument.
Fed(n) == IF composed = <<>> THEN 0 ELSE composed.fed[n]

\* The series of an instrument is flat and, under the gains of 1 and more, may
\* end past the warm-up with one bar a tick lower.
WarmupPrices(n) ==
    IF Fed(n) + 1 >= warmupBars /\ RLe(ROne, stratCfg.BreakoutGain)
    THEN {FlatPrice, FlatPrice - 1} ELSE {FlatPrice}

\* The target OnCandle computes from the state the bar leaves, before the clamp.
TargetOnCandle(sc, rc, sad, c) ==
    The({The({composeTarget(sc, rc, [sad EXCEPT !.states[c.InstID] = st], c.InstID,
                            trendSignal, computeMeanReversionSignal(sc, st),
                            computeBreakoutSignal(sc, st), detectRegime(sc, st, sad.adx),
                            multiTimeframeScaler(sc, trendSignal, st),
                            computeFallbackSignal(sc, st)).posRaw :
                trendSignal \in {computeTrendSignal(st)}}) :
           st \in {strategyUpdate(sad.states[c.InstID], c, sad.barMinutes,
                                  sad.higherTFMinutes)}})

\* One OnCandle; the call is logged with the number of bars of the instrument
\* fed so far, the signals returned and the target before the clamp.
WarmupCall ==
    /\ pc = "idle"
    /\ Fed("A") + Fed("B") < MaxWarmupBars
    /\ \E inst \in {n \in Insts : strat.states[n].lastClose \in {RZero, RInt(FlatPrice)}} :
       \E price \in WarmupPrices(inst) :
       \E c \in {MkFlat(inst, (Fed("A") + Fed("B") + 1) * timeframeMinutes * 60 * 1000, price)} :
       \E out \in {StrategyOnCandle(stratCfg, riskCfg, strat, c)} :
          /\ strat' = out.sa
          /\ composed' = [fed |-> [n \in Insts |-> IF n = inst THEN Fed(n) + 1 ELSE Fed(n)],
                          inst |-> inst, sigs |-> out.sigs,
                          posRaw |-> TargetOnCandle(stratCfg, riskCfg, strat, c)]
    /\ UNCHANGED <<riskVars, gridVars, runnerVars, stratCfg, runs, run, first, start, glog,
                   script, rangeSeen, cfg, hasRisk, all, i, ts, group, eq, peak, maxDD,
                   states, curve, trades, sumRet, targets, pc, ra, result, trace,
                   pendingSrc, fills>>

NextWarmup == WarmupCall

SpecWarmup == InitWarmup /\ [][NextWarmup]_vars

\* ------------------------------------------------------------------------
\* StrategyAdapter.multiTimeframeScaler on any higher-timeframe EMA pair and
\* trend signal, with confirmation and alignment on, off or left out
\* ------------------------------------------------------------------------
MaxMTFCalls == 2

MTFConfigs ==
    {[DefaultStrategyConfig EXCEPT !.MTFConfirmEnable = e, !.MTFTrendAlign = a] :
        e \in {"nil", "true", "false"}, a \in {"nil", "true", "false"}}

\* EMAs of positive closes, around 100.
MTFLevels == {RInt(99), RInt(100), RInt(101)}

MTFTrendSignals == {Rat(-1, 2), RZero, Rat(1, 2)}

InitMTF == InitStrategyOn(MTFConfigs)

\* One call of multiTimeframeScaler; it is logged with what it read, what it
\* returned and the counters before it.
MTFCall ==
    /\ pc = "idle"
    /\ (IF composed = <<>> THEN 0 ELSE composed.calls) < MaxMTFCalls
    /\ \E fast \in MTFLevels, slow \in MTFLevels, trendSignal \in MTFTrendSignals :
       \E r \in {multiTimeframeScaler(stratCfg, trendSignal,
                                       [newStrategyState EXCEPT !.mtfFast = fast,
                                                                !.mtfSlow = slow])} :
          /\ strat' = [strat EXCEPT !.mtfChecks = @ + r.checks,
                                    !.mtfAligned = @ + r.aligned,
                                    !.mtfFiltered = @ + r.filtered]
          /\ composed' = [calls |-> (IF composed = <<>> THEN 0 ELSE composed.calls) + 1,
                          fast |-> fast, slow |-> slow, trendSignal |-> trendSignal,
                          scaler |-> r.scaler, checks |-> strat.mtfChecks,
                          aligned |-> strat.mtfAligned, filtered |-> strat.mtfFiltered]
    /\ UNCHANGED <<riskVars, gridVars, runnerVars, stratCfg, runs, run, first, start, glog,
                   script, rangeSeen, cfg, hasRisk, all, i, ts, group, eq, peak, maxDD,
                   states, curve, trades, sumRet, targets, pc, ra, result, trace,
                   pendingSrc, fills>>

NextMTF == MTFCall

SpecMTF == InitMTF /\ [][NextMTF]_vars

\* ------------------------------------------------------------------------
\* StrategyAdapter.OnCandle on component signals that cancel: the attribution
\* label of the emitted signal
\* ------------------------------------------------------------------------
MaxDominantCalls == 1

\* Trend and mean-reversion signals of opposite sign leave a weighted sum below
\* the fallback gate while each component is larger than the fallback scale.
DominantTrendSignals == {Rat(-1, 5), RZero, Rat(1, 5)}

DominantMRSignals == {Rat(-1, 2), RZero, Rat(1, 2)}

DominantBreakoutSignals == {RZero, ROne}

DominantRegimes == {"neutral", "trending"}

\* multiTimeframeScaler before the higher timeframe has an opinion.
DominantAlignment == [scaler |-> ROne, checks |-> 1, aligned |-> 0, filtered |-> 0]

InitDominant == InitStrategyOn(ComposeStrategyConfigs)

\* One OnCandle past the warm-up; the components, the label and the signal
\* are logged.
DominantCall ==
    /\ pc = "idle"
    /\ strat.regimeCounts["trending"] + strat.regimeCounts["ranging"]
          + strat.regimeCounts["neutral"] < MaxDominantCalls
    /\ \E trendSignal \in DominantTrendSignals, mrSignal \in DominantMRSignals,
          breakoutSignal \in DominantBreakoutSignals, regime \in DominantRegimes,
          fb \in ComposeFallbacks(stratCfg) :
          \E out \in {composeTarget(stratCfg, riskCfg, strat, "A", trendSignal, mrSignal,
                                    breakoutSignal, regime, DominantAlignment, fb)} :
              /\ strat' = out.sa
              /\ composed' = [trend |-> out.parts.trend, mr |-> out.parts.mr,
                              breakout |-> out.parts.breakout,
                              fallback |-> out.fallback, sub |-> out.sub,
                              sigs |-> out.sigs]
    /\ UNCHANGED <<riskVars, gridVars, runnerVars, stratCfg, runs, run, first, start, glog,
                   script, rangeSeen, cfg, hasRisk, all, i, ts, group, eq, peak, maxDD,
                   states, curve, trades, sumRet, targets, pc, ra, result, trace,
                   pendingSrc, fills>>

NextDominant == DominantCall

SpecDominant == InitDominant /\ [][NextDominant]_vars

\* ------------------------------------------------------------------------
\* The portfolio engine as the kernel drives it through PortfolioAdapter: one
\* Propose per timestamp group
\* ------------------------------------------------------------------------
MaxProposals == 3

\* portfolio.NewEngine on the configuration of buildPortfolioEngine; a weight
\* missing from lastTargets reads 0.
buildPortfolioEngine ==
    [RebalanceIntervalBars |-> 24, DriftThreshold |-> Rat(5, 100),
     TurnoverCap |-> Rat(9, 10), lastBarTs |-> 0, barCount |-> 0,
     lastTargets |-> [k \in Insts |-> RZero]]

\* Engine.BeginBar: the only place that advances barCount. Neither the kernel
\* nor PortfolioAdapter calls it.
portfolioBeginBar(e, t) ==
    IF t <= 0 THEN e
    ELSE IF e.lastBarTs # t THEN [e EXCEPT !.lastBarTs = t, !.barCount = @ + 1]
    ELSE e

RECURSIVE SumAbsDiff(_, _, _)
SumAbsDiff(f, g, S) ==
    IF S = {} THEN RZero
    ELSE LET k == CHOOSE x \in S : TRUE
         IN  RAdd(RAbs(RSub(f[k], g[k])), SumAbsDiff(f, g, S \ {k}))

\* Engine.rebalanceGate on weights that name every instrument (the 1e-12 in
\* the capping ratio is dropped).
rebalanceGate(e, w) ==
    IF e.RebalanceIntervalBars > 0 /\ e.barCount % e.RebalanceIntervalBars # 0
    THEN [e |-> e, final |-> e.lastTargets, turnover |-> RZero]
    ELSE LET last == e.lastTargets
             kept == [k \in Insts |->
                        IF RLt(RAbs(RSub(w[k], last[k])), e.DriftThreshold)
                        THEN last[k] ELSE w[k]]
             turnover == SumAbsDiff(kept, last, Insts)
             capped == RLt(RZero, e.TurnoverCap) /\ RLt(e.TurnoverCap, turnover)
             final == IF capped
                      THEN [k \in Insts |->
                              RAdd(last[k], RMul(RDiv(e.TurnoverCap, turnover),
                                                 RSub(kept[k], last[k])))]
                      ELSE kept
         IN  [e |-> [e EXCEPT !.lastTargets = final], final |-> final,
              turnover |-> IF capped THEN e.TurnoverCap ELSE turnover]

\* The weights Propose hands to the gate after aggregation, risk allocation,
\* volatility scaling and limits: any non-zero weight per instrument.
ProposedWeights == {Rat(-1, 4), Rat(1, 4), Rat(1, 2)}

InitPortfolio ==
    /\ InitRunOn({buildBacktestEngine(RInt(10000), DefaultRiskConfig, timeframeMinutes)},
                 {FALSE}, {<<>>}, 1, "idle")
    /\ stratCfg = NoStrategyConfig
    /\ strat = NoStrategy
    /\ composed = <<>>
    /\ RiskIdle
    /\ GridIdle
    /\ rawConfig = <<>>
    /\ config = <<>>
    /\ barMinutes = 0
    /\ runnerPc = "idle"
    /\ analytics = <<>>
    /\ portfolio = buildPortfolioEngine
    /\ proposed = <<>>

\* Step 2.3 of Engine.Run at the next timestamp group with signals for every
\* instrument: SetStrategyTargets and Propose. n counts the distinct timestamps.
PortfolioPropose ==
    /\ pc = "idle"
    /\ portfolio # NoPortfolio
    /\ (IF proposed = <<>> THEN 0 ELSE proposed.n) < MaxProposals
    /\ \E w \in [Insts -> ProposedWeights] :
          \E out \in {rebalanceGate(portfolio, w)} :
              /\ portfolio' = out.e
              /\ proposed' = [n |-> (IF proposed = <<>> THEN 0 ELSE proposed.n) + 1,
                              before |-> portfolio.lastTargets, w |-> w,
                              final |-> out.final, turnover |-> out.turnover]
    /\ UNCHANGED <<riskVars, gridVars, stratVars, rawConfig, config, barMinutes, runnerPc,
                   analytics, runs, run, first, start, glog, script, rangeSeen, cfg,
                   hasRisk, all, i, ts, group, eq, peak, maxDD, states, curve, trades,
                   sumRet, targets, pc, ra, result, trace, pendingSrc, fills>>

NextPortfolio == PortfolioPropose

SpecPortfolio == InitPortfolio /\ [][NextPortfolio]_vars

\* ------------------------------------------------------------------------
\* StrategyAdapter.computeWeights on any positive gains
\* ------------------------------------------------------------------------
PositiveGains == {Rat(1, 2), ROne, Rat(18, 10), RInt(3)}

WeightConfigs ==
    {[DefaultStrategyConfig EXCEPT !.TrendGain = t, !.MRGain = m, !.BreakoutGain = b] :
        t \in PositiveGains, m \in PositiveGains, b \in PositiveGains}

InitWeights == InitStrategyOn(WeightConfigs)

\* A call of computeWeights; the call is logged with what it returned.
WeightsCall ==
    /\ pc = "idle"
    /\ \E regime \in Regimes :
          composed' = [regime |-> regime, weights |-> computeWeights(stratCfg, regime)]
    /\ UNCHANGED <<riskVars, gridVars, runnerVars, stratCfg, strat, runs, run, first, start,
                   glog, script, rangeSeen, cfg, hasRisk, all, i, ts, group, eq, peak, maxDD,
                   states, curve, trades, sumRet, targets, pc, ra, result, trace,
                   pendingSrc, fills>>

NextWeights == WeightsCall

SpecWeights == InitWeights /\ [][NextWeights]_vars

\* ------------------------------------------------------------------------
\* Engine.Run on series whose closes may be zero or negative
\* ------------------------------------------------------------------------
\* Closes a bar may take here; opens, highs and lows stay positive, and fills
\* are priced at the open.
BadPriceLevels == {-1, 0, 4}

\* Three consecutive one-minute bars of A, and none or one bar of B.
BadCloseLayouts ==
    {[k \in Insts |-> IF k = "A" THEN <<2, 4, 6>> ELSE b] : b \in {<<>>, <<4>>, <<6>>}}

InitBadClose ==
    /\ InitRun({c \in RawConfigs : c.TradeOnNextBar /\ c.Hooks = "none"}, BOOLEAN,
               BadCloseLayouts, 1, "begin")
    /\ RunnerIdle
    /\ RiskIdle
    /\ GridIdle

BadCloseBeginGroup == BeginGroupOn(MkCandle, BadPriceLevels)

NextBadClose ==
    \/ BadCloseBeginGroup
    \/ AccumulateReturn
    \/ PropagateCandles
    \/ CollectSignals
    \/ ApproveAndSchedule
    \/ ApplyReturn
    \/ ApplyDuePendings
    \/ RollState
    \/ RecordEquity
    \/ Finish

SpecBadClose == InitBadClose /\ [][NextBadClose]_vars

\* ------------------------------------------------------------------------
\* BacktestConfig.normalize, NewBacktestRunner and BacktestRunner.Run (main.go)
\* ------------------------------------------------------------------------
\* strings.ToLower(strings.TrimSpace(tf)) on the timeframes of the model.
lowerTrim(tf) ==
    CASE tf = "1H" -> "1h"
      [] tf = " 15m " -> "15m"
      [] tf = "CSV" -> "csv"
      [] OTHER -> tf

timeframeStepMS(tf) ==
    LET t == lowerTrim(tf)
    IN  CASE t = "1m" -> 60 * 1000
          [] t = "5m" -> 5 * 60 * 1000
          [] t = "15m" -> 15 * 60 * 1000
          [] t = "30m" -> 30 * 60 * 1000
          [] t = "1h" -> 60 * 60 * 1000
          [] t = "4h" -> 4 * 60 * 60 * 1000
          [] t = "1d" -> 24 * 60 * 60 * 1000
          [] OTHER -> 15 * 60 * 1000

normalizeTimeframe(tf) ==
    LET tfMin == timeframeStepMS(tf) \div (60 * 1000)
    IN  IF tfMin <= 0 THEN 15 ELSE tfMin

\* A nested tunable left at or below zero takes the legacy flat field if that is
\* positive, and the built-in default otherwise.
legacyOr(x, legacy, d) ==
    IF RLt(RZero, x) THEN x ELSE IF RLt(RZero, legacy) THEN legacy ELSE d

\* FallbackConfig.applyDefaults(legacyScale)
applyDefaultsFallback(f, legacyScale) ==
    [f EXCEPT !.Scale = legacyOr(@, legacyScale, Rat(25, 100)),
              !.MAPeriod = IF @ <= 0 THEN 100 ELSE @]

\* StrategyConfig.applyDefaults(cfg)
applyDefaultsStrategy(sc, c) ==
    [sc EXCEPT !.TrendGain = legacyOr(@, c.StrategyTrendGain, RInt(2)),
               !.MRGain = legacyOr(@, c.StrategyMRGain, Rat(7, 10)),
               !.BreakoutGain = legacyOr(@, c.StrategyBreakoutGain, ROne),
               !.Fallback = applyDefaultsFallback(@, c.FallbackScale)]

\* RiskConfig.applyDefaults(cfg)
applyDefaultsRisk(rc, c) ==
    [rc EXCEPT !.RiskTarget = legacyOr(@, c.StrategyRiskTarget, Rat(6, 10)),
               !.ATRPeriod = IF @ <= 0 THEN 14 ELSE @,
               !.MaxAbsPosition = legacyOr(@, c.StrategyMaxAbsPosition, Rat(15, 10)),
               !.MaxLeverage = legacyOr(@, c.StrategyMaxLeverage, RInt(2))]

\* The legacy flat fields as normalize leaves them before the nested defaults.
normalizeLegacy(c) ==
    [c EXCEPT !.BarsLimit = IF @ = 0 THEN 2000 ELSE @,
              !.StrategyRiskTarget = IF RLe(@, RZero) THEN ROne ELSE @,
              !.StrategyMaxAbsPosition = IF RLe(@, RZero) THEN RInt(2) ELSE @,
              !.StrategyMaxLeverage = IF RLe(@, RZero) THEN RInt(3) ELSE @,
              !.StrategyTrendGain = IF RLe(@, RZero) THEN RInt(3) ELSE @,
              !.StrategyMRGain = IF RLe(@, RZero) THEN Rat(30, 100) ELSE @,
              !.StrategyBreakoutGain = IF RLe(@, RZero) THEN ROne ELSE @,
              !.FallbackScale = IF RLe(@, RZero) THEN ROne ELSE @]

normalize(c) ==
    LET l == normalizeLegacy(c)
    IN  [l EXCEPT !.Strategy = applyDefaultsStrategy(@, l),
                  !.Risk = applyDefaultsRisk(@, l)]

\* A tunable is omitted (zero) or given.
GivenOrOmitted == {RZero, Rat(11, 10)}

OmittedStrategy ==
    [TrendGain |-> RZero, MRGain |-> RZero, BreakoutGain |-> RZero,
     Fallback |-> [Scale |-> RZero, MAPeriod |-> 0]]

OmittedRisk ==
    [RiskTarget |-> RZero, ATRPeriod |-> 0, MaxAbsPosition |-> RZero,
     MaxLeverage |-> RZero]

OmittedConfig ==
    [Timeframe |-> "15m", DataSource |-> "csv", BarsLimit |-> 0,
     StrategyRiskTarget |-> RZero, StrategyMaxAbsPosition |-> RZero,
     StrategyMaxLeverage |-> RZero, StrategyTrendGain |-> RZero,
     StrategyMRGain |-> RZero, StrategyBreakoutGain |-> RZero,
     FallbackScale |-> RZero, Strategy |-> OmittedStrategy, Risk |-> OmittedRisk]

\* Configuration files that give or omit each tunable and each legacy field.
TunableConfigs ==
    {[OmittedConfig EXCEPT
         !.StrategyRiskTarget = q[1], !.StrategyMaxAbsPosition = q[2],
         !.StrategyMaxLeverage = q[3], !.StrategyTrendGain = q[4],
         !.StrategyMRGain = q[5], !.FallbackScale = q[6],
         !.Risk.RiskTarget = q[7], !.Risk.MaxAbsPosition = q[8],
         !.Risk.MaxLeverage = q[9], !.Strategy.TrendGain = q[10],
         !.Strategy.MRGain = q[11], !.Strategy.Fallback.Scale = q[12]] :
        q \in [1..12 -> GivenOrOmitted]}

Timeframes == {"1m", "5m", "15m", "30m", "1h", "4h", "1d", "2h", "", "1H", " 15m "}

DataSources == {"csv", "api", "CSV", "ftp"}

TimeframeConfigs ==
    {[OmittedConfig EXCEPT !.Timeframe = t, !.DataSource = d, !.BarsLimit = b] :
        t \in Timeframes, d \in DataSources, b \in {0, 500}}

\* Before NewBacktestRunner, with one of the given configuration files.
InitRunner(files) ==
    /\ KernelIdle(1)
    /\ RiskIdle
    /\ GridIdle
    /\ rawConfig \in files
    /\ config = <<>>
    /\ barMinutes = 0
    /\ runnerPc = "start"
    /\ analytics = <<>>
    /\ portfolio = NoPortfolio
    /\ proposed = <<>>

\* NewBacktestRunner: loadConfig (which may fail to read or parse the file and
\* otherwise normalizes), then the timeframe in minutes and the engines.
NewBacktestRunner ==
    /\ runnerPc = "start"
    /\ \E readable \in BOOLEAN :
          IF readable
          THEN /\ config' = normalize(rawConfig)
               /\ barMinutes' = normalizeTimeframe(config'.Timeframe)
               /\ runnerPc' = "built"
          ELSE /\ runnerPc' = "failed"
               /\ UNCHANGED <<config, barMinutes>>
    /\ UNCHANGED <<riskVars, gridVars, stratVars, rawConfig, analytics, portfolio, proposed, cfg, hasRisk, all, i, ts,
                   group, eq, peak, maxDD, states, curve, trades, sumRet, targets, pc,
                   ra, result, trace, pendingSrc, fills, start, glog, runs, run,
                   script, first, rangeSeen>>

\* What loadHistoricalData returns an error for: an unknown data source, or no
\* instrument whose candles could be loaded.
loadFails(c, have) == ~(lowerTrim(c.DataSource) \in {"csv", "api"} /\ have)

\* BacktestRunner.Run up to the call of the engine: the data is loaded (have says
\* whether any instrument had candles), the layers are wired, the backtest runs.
RunnerRun ==
    /\ runnerPc = "built"
    /\ \E have \in BOOLEAN :
          runnerPc' = IF loadFails(config, have) THEN "nodata" ELSE "ran"
    /\ UNCHANGED <<riskVars, gridVars, stratVars, rawConfig, config, barMinutes, analytics,
                   portfolio, proposed, cfg,
                   hasRisk, all, i, ts, group, eq, peak, maxDD, states, curve, trades,
                   sumRet, targets, pc, ra, result, trace, pendingSrc, fills, start,
                   glog, runs, run, script, first, rangeSeen>>

NextRunner ==
    \/ NewBacktestRunner
    \/ RunnerRun

InitNormalize == InitRunner(TunableConfigs)

SpecNormalize == InitNormalize /\ [][NextRunner]_vars

InitTimeframe == InitRunner(TimeframeConfigs)

SpecRunner == InitTimeframe /\ [][NextRunner]_vars

\* ------------------------------------------------------------------------
\* buildAnalytics: summarizeAttribution on the trades of a result
\* ------------------------------------------------------------------------
MaxAttrTrades == 3

AttributionBuckets == {"trend", "mr", "breakout", "fallback"}

\* Sub-strategy names of trades: bucket names, none, blank, padded and another.
SubStrategies == {"trend", "mr", "", "  ", " mr ", "custom"}

\* Trade returns: a loss, nothing, and two gains.
TradeReturns == {Rat(-1, 100), RZero, Rat(1, 200), Rat(2, 100)}

\* strings.TrimSpace on the names of the model.
trimSpace(name) ==
    CASE name = "  " -> ""
      [] name = " mr " -> "mr"
      [] OTHER -> name

newAttrAccumulator ==
    [trades |-> 0, wins |-> 0, winSum |-> RZero, lossSum |-> RZero, lossCount |-> 0,
     total |-> RZero]

\* The loop over the trades: the accumulators after the first n trades.
RECURSIVE attrAccumulate(_, _)
attrAccumulate(trs, n) ==
    IF n = 0 THEN [k \in AttributionBuckets |-> newAttrAccumulator]
    ELSE LET acc == attrAccumulate(trs, n - 1)
             tr == trs[n]
             key == IF trimSpace(tr.SubStrategy) = "" THEN "unknown"
                    ELSE trimSpace(tr.SubStrategy)
             bucket == IF key \in DOMAIN acc THEN acc[key] ELSE newAttrAccumulator
             after == [bucket EXCEPT
                         !.trades = @ + 1,
                         !.total = RAdd(@, tr.Return),
                         !.wins = IF RLt(RZero, tr.Return) THEN @ + 1 ELSE @,
                         !.winSum = IF RLt(RZero, tr.Return) THEN RAdd(@, tr.Return) ELSE @,
                         !.lossCount = IF RLt(tr.Return, RZero) THEN @ + 1 ELSE @,
                         !.lossSum = IF RLt(tr.Return, RZero) THEN RAdd(@, tr.Return) ELSE @]
         IN  [k \in DOMAIN acc \cup {key} |-> IF k = key THEN after ELSE acc[k]]

attributionStats(bucket) ==
    [Trades |-> bucket.trades, TotalReturn |-> bucket.total,
     WinRate |-> IF bucket.trades > 0 THEN Rat(bucket.wins, bucket.trades) ELSE RZero,
     AvgWin |-> IF bucket.wins > 0 THEN RDiv(bucket.winSum, RInt(bucket.wins)) ELSE RZero,
     AvgLoss |-> IF bucket.lossCount > 0 THEN RDiv(bucket.lossSum, RInt(bucket.lossCount))
                 ELSE RZero]

\* Variant that creates a bucket only for the names that occur.
summarizeAttributionSparse(trs) ==
    LET acc == attrAccumulate(trs, Len(trs))
        seen == {k \in DOMAIN acc : acc[k].trades > 0}
    IN  [k \in seen |-> attributionStats(acc[k])]

summarizeAttribution(trs) ==
    LET acc == attrAccumulate(trs, Len(trs))
    IN  [k \in DOMAIN acc |-> attributionStats(acc[k])]

InitAttribution ==
    /\ KernelIdle(1)
    /\ RunnerIdle
    /\ RiskIdle
    /\ GridIdle

\* The engine closes one more trade of the result.
CloseTrade ==
    /\ pc = "idle"
    /\ runnerPc = "idle"
    /\ Len(trades) < MaxAttrTrades
    /\ \E name \in SubStrategies, ret \in TradeReturns :
          trades' = Append(trades, [SubStrategy |-> name, Return |-> ret])
    /\ UNCHANGED <<riskVars, gridVars, stratVars, runnerVars, cfg, hasRisk, all, i, ts,
                   group, eq, peak, maxDD, states, curve, sumRet, targets, pc, ra, result,
                   trace, pendingSrc, fills, start, glog, runs, run, script, first,
                   rangeSeen>>

\* buildAnalytics on the trades of the result.
BuildAnalytics ==
    /\ pc = "idle"
    /\ runnerPc = "idle"
    /\ analytics' = summarizeAttribution(trades)
    /\ runnerPc' = "analysed"
    /\ UNCHANGED <<riskVars, gridVars, stratVars, rawConfig, config, barMinutes, portfolio,
                   proposed, cfg,
                   hasRisk, all, i, ts, group, eq, peak, maxDD, states, curve, trades,
                   sumRet, targets, pc, ra, result, trace, pendingSrc, fills, start,
                   glog, runs, run, script, first, rangeSeen>>

NextAttribution ==
    \/ CloseTrade
    \/ BuildAnalytics

SpecAttribution == InitAttribution /\ [][NextAttribution]_vars

\* ------------------------------------------------------------------------
\* Properties of Engine.Run
\* ------------------------------------------------------------------------
SeqIdx(q) == 1..Len(q)

\* Timestamps of the bars the series holds for an instrument.
BarTs(inst) == {all[k].T : k \in {m \in SeqIdx(all) : all[m].InstID = inst}}

MinOf(S) == CHOOSE m \in S : \A y \in S : m <= y

BarStepMs == cfg.BarMinutes * 60 * 1000

\* The fill that opened the position an instrument holds.
OpeningFills(n) ==
    {k \in SeqIdx(fills) : fills[k].inst = n /\ fills[k].ts = states[n].entryTs}

\* C1: a fill is applied at a bar whose timestamp is at least that of the bar
\* whose signal produced the filled target, and at least a bar step later when
\* trade_on_next_bar is set; hence the entry_ts of every open position and of
\* every closed trade is the timestamp of such a fill.
C1_NoLookAhead ==
    /\ \A k \in SeqIdx(fills) :
          /\ fills[k].sigTs \in BarTs(fills[k].inst)
          /\ fills[k].ts >= fills[k].sigTs
          /\ cfg.TradeOnNextBar => fills[k].ts >= fills[k].sigTs + BarStepMs
    /\ \A n \in Insts :
          states[n].pos # RZero =>
              \E k \in OpeningFills(n) : states[n].entryTs >= fills[k].sigTs
    /\ \A t \in SeqIdx(trades) :
          \E k \in SeqIdx(fills) :
              /\ fills[k].inst = trades[t].InstID
              /\ fills[k].ts = trades[t].EntryTime
              /\ trades[t].EntryTime >= fills[k].sigTs

C1_Witness ==
    /\ cfg.TradeOnNextBar
    /\ \E n \in Insts :
          /\ states[n].pos # RZero
          /\ \E k \in OpeningFills(n) : fills[k].ts >= fills[k].sigTs + BarStepMs

\* The bar of an instrument that immediately follows the bar at t, if any.
LaterBars(inst, t) == {x \in BarTs(inst) : x > t}

\* C2 as stated: with trade_on_next_bar every fill is priced, and every entry
\* made, at the open of the instrument's bar immediately following the signal
\* bar; without it at the close of the signal bar.
C2_AsStated ==
    \A k \in SeqIdx(fills) :
        LET f == fills[k]
        IN  IF cfg.TradeOnNextBar
            THEN /\ LaterBars(f.inst, f.sigTs) # {}
                 /\ f.ts = MinOf(LaterBars(f.inst, f.sigTs))
                 /\ f.ref = f.barO
                 /\ f.px = f.ref
            ELSE /\ f.ts = f.sigTs
                 /\ f.ref = f.barC
                 /\ f.px = f.ref

DueBars(inst, t) == {x \in BarTs(inst) : x >= t + BarStepMs}

\* Price a fill is booked at: the BeforeFill hook's price when it is positive.
BookedPrice(f) ==
    LET hb == BeforeFillHook(f.inst, "buy", ROne, f.ref)
    IN  IF cfg.Hooks = "both" /\ RLt(RZero, hb.px) THEN hb.px ELSE f.ref

\* C2, amended: with trade_on_next_bar the reference price of a fill is the
\* open of the instrument's first bar at or after signal ts + bar step (the
\* immediately following bar when that bar is at least a bar step later);
\* without it the close of the signal bar. The price booked as entry_price is
\* the reference price unless a BeforeFill hook returns a positive price.
C2_FillPrice ==
    /\ \A k \in SeqIdx(fills) :
          LET f == fills[k]
          IN  /\ IF cfg.TradeOnNextBar
                 THEN /\ DueBars(f.inst, f.sigTs) # {}
                      /\ f.ts = MinOf(DueBars(f.inst, f.sigTs))
                      /\ f.ref = f.barO
                      /\ MinOf(LaterBars(f.inst, f.sigTs)) >= f.sigTs + BarStepMs
                            => f.ts = MinOf(LaterBars(f.inst, f.sigTs))
                 ELSE /\ f.ts = f.sigTs
                      /\ f.ref = f.barC
              /\ f.px = BookedPrice(f)
    /\ \A n \in Insts :
          states[n].pos # RZero =>
              \E k \in OpeningFills(n) : states[n].entryPx = fills[k].px

C2_Witness ==
    /\ cfg.TradeOnNextBar
    /\ \E k \in SeqIdx(fills) :
          /\ fills[k].ts > MinOf(LaterBars(fills[k].inst, fills[k].sigTs))
          /\ states[fills[k].inst].entryPx = fills[k].barO

\* exp of the sum, over the first n bars of the group, of position *
\* ln(close / last_close) with the position and last close each instrument had
\* when the group began.
RECURSIVE HeldReturn(_)
HeldReturn(n) ==
    IF n = 0 THEN ROne
    ELSE LET k == group[n]
             st == start.states[k.InstID]
             r == IF st.pos # RZero /\ RLt(RZero, st.lastClose)
                  THEN ExpPosLog(st.pos, RDiv(RInt(k.C), st.lastClose)) ELSE ROne
         IN  RMul(HeldReturn(n - 1), r)

\* C3: the return of a group is computed from the positions held before any
\* fill of the group, equity is multiplied by exactly that return, and the
\* fills of the group leave the recorded return unchanged.
C3_ReturnFromHeldPosition ==
    /\ pc \notin {"begin", "equity", "done"} => sumRet = HeldReturn(Len(group))
    /\ pc = "fill" => eq = RMul(start.eq, HeldReturn(Len(group)))
    /\ pc = "begin" /\ curve # <<>> => curve[Len(curve)].Ret = HeldReturn(Len(group))
    /\ pc = "begin" => \A n \in Insts :
          states[n].pos # RZero => RLt(RZero, states[n].lastClose)

C3_Witness ==
    /\ pc = "record"
    /\ sumRet # ROne
    /\ \E n \in Insts : /\ start.states[n].pos # RZero
                        /\ start.states[n].pos # states[n].pos

\* Places in the trace of the current group at which a step acted.
Idx(step) == {k \in SeqIdx(trace) : trace[k].step = step}

AllBefore(S, T) == \A a \in S, b \in T : a < b

InGroup(n) == findInGroup(group, n) # {}

Due(n) == states[n].pendingTarget.set /\ states[n].pendingTarget.applyAt <= ts

OrderedSteps ==
    /\ AllBefore(Idx("risk_on_candle"), Idx("strategy_on_candle"))
    /\ hasRisk /\ Idx("strategy_on_candle") # {}
          => Cardinality(Idx("risk_on_candle")) = Len(group)
    /\ AllBefore(Idx("strategy_on_candle"), Idx("approve"))
    /\ pc \in {"strategy", "oncandle", "equity"} => targets = <<>>
    /\ AllBefore(Idx("approve"), Idx("fill"))
    /\ AllBefore(Idx("fill"), Idx("roll"))

\* C4 as stated: on_candle for every bar precedes the targets, every target is
\* approved and scheduled before any fill, and when last_close is rolled no
\* pending with apply_ts <= ts is left unapplied.
C4_AsStated ==
    /\ OrderedSteps
    /\ Idx("roll") # {} => \A n \in Insts : ~Due(n)

\* C4, amended: on_candle for every bar precedes the targets, every target is
\* approved and scheduled before any fill, and when last_close is rolled no
\* pending with apply_ts <= ts is left unapplied for an instrument that has a
\* bar in the group (the pending of an instrument without a bar at this
\* timestamp waits for that instrument's next bar).
C4_StepOrder ==
    /\ OrderedSteps
    /\ Idx("roll") # {} => \A n \in Insts : InGroup(n) => ~Due(n)

C4_Witness ==
    /\ Idx("roll") # {}
    /\ Idx("fill") # {}
    /\ Idx("approve") # {}
    /\ \E n \in Insts : ~InGroup(n) /\ Due(n)

Steps == {"equity", "risk_on_candle", "strategy_on_candle", "approve", "fill", "roll"}

\* C5: in every step of a group the instruments are visited in lexicographic
\* inst_id order.
C5_LexicographicVisits ==
    \A s \in Steps : \A a, b \in Idx(s) :
        a < b => InstRank(trace[a].inst) < InstRank(trace[b].inst)

\* C7: over a span of consecutive recorded groups before and after each of
\* which every position is 0, the recorded equity is the same at every point.
C7_FlatEquityConstant ==
    \A a, b \in SeqIdx(curve) :
        (a <= b /\ \A k \in a..b : glog[k].before /\ glog[k].after)
            => /\ curve[a].Equity = curve[b].Equity
               /\ curve[b].Ret = ROne
               /\ a > 1 => curve[a - 1].Equity = curve[a].Equity

C7_Witness ==
    /\ Len(curve) = 3
    /\ glog[1].before /\ glog[1].after
    /\ glog[2].before /\ glog[2].after
    /\ ~glog[3].after
    /\ \E n \in Insts : states[n].pendingTarget = NoPending /\ states[n].pos # RZero

RECURSIVE MaxDrawdown(_)
MaxDrawdown(n) ==
    IF n = 0 THEN RZero ELSE RMax(MaxDrawdown(n - 1), curve[n].Drawdown)

\* C8: every recorded drawdown lies in [0, 1], the running peak is at least
\* the equity at every recorded point, and Result.max_dd is the largest
\* recorded drawdown.
C8_DrawdownBounds ==
    /\ \A k \in SeqIdx(curve) :
          RLe(RZero, curve[k].Drawdown) /\ RLe(curve[k].Drawdown, ROne)
    /\ pc \in {"begin", "done"} => RLe(eq, peak)
    /\ pc = "done" /\ all # <<>> => result.MaxDD = MaxDrawdown(Len(curve))

\* ------------------------------------------------------------------------
\* Properties of two executions on the same inputs
\* ------------------------------------------------------------------------
IsPrefix(p, q) == Len(p) <= Len(q) /\ p = SubSeq(q, 1, Len(p))

\* C6: a second execution of the kernel on the same series and configuration,
\* with fresh adapters, records the same equity curve and the same trades and
\* returns the same Result, in whatever order the series map and the targets
\* map are ranged over;
\* a second grid search with the same seed returns the same leaderboard in
\* the same order.
C6_Deterministic ==
    /\ run = 2 /\ pc # "idle" =>
          /\ IsPrefix(curve, first.EquityCurve)
          /\ IsPrefix(trades, first.Trades)
    /\ run = 2 /\ pc = "done" => result = first
    /\ run = 1 /\ pc = "begin" /\ i = 1 =>
          \A s \in Layouts : \A v, w \in VisitOrders : flatten(s, v) = flatten(s, w)
    /\ run = 2 /\ gridPc = "returned" => leaderboard = firstBoard

C6_Witness ==
    /\ run = 2
    /\ pc = "done"
    /\ Len(result.EquityCurve) >= 2
    /\ Len(fills) >= 2
    /\ rangeSeen = {<<"A", "B">>}
    /\ \E a, b \in Idx("approve") :
          a < b /\ trace[a].inst = "B" /\ trace[b].inst = "A"

\* ------------------------------------------------------------------------
\* Properties of RiskAdapter.Approve
\* ------------------------------------------------------------------------
Approved == approveLog[1].approved

\* C9 as stated: what Approve returns is within max_abs_position * max_leverage.
C9_AsStated ==
    approveLog # <<>> =>
        RLe(RAbs(Approved), RMul(riskCfg.MaxAbsPosition, riskCfg.MaxLeverage))

\* C9, amended: what Approve returns, and the position the adapter keeps, is
\* within min(max_abs_position, max_leverage); that is within
\* max_abs_position * max_leverage when one of the two settings is at least 1.
C9_ApproveClamp ==
    LET cap == RMin(riskCfg.MaxAbsPosition, riskCfg.MaxLeverage)
        product == RMul(riskCfg.MaxAbsPosition, riskCfg.MaxLeverage)
    IN  /\ approveLog # <<>> =>
              /\ RLe(RAbs(Approved), cap)
              /\ (RLe(ROne, riskCfg.MaxAbsPosition) \/ RLe(ROne, riskCfg.MaxLeverage))
                    => RLe(RAbs(Approved), product)
        /\ \A n \in Insts : RLe(RAbs(adapter.states[n].position), cap)

C9_Witness ==
    /\ approveLog # <<>>
    /\ RLt(RZero, adapter.states[approveLog[1].inst].atr)
    /\ RAbs(Approved) = RMin(riskCfg.MaxAbsPosition, riskCfg.MaxLeverage)
    /\ RLt(RMul(riskCfg.MaxAbsPosition, riskCfg.MaxLeverage), RAbs(Approved))

\* ------------------------------------------------------------------------
\* Properties of runGridSearch
\* ------------------------------------------------------------------------
ParamsOf(e) ==
    [TrendGain |-> e.TrendGain, MRGain |-> e.MRGain, BreakoutGain |-> e.BreakoutGain,
     RiskTarget |-> e.RiskTarget, ATRStop |-> e.ATRStop, ATRTrail |-> e.ATRTrail,
     RegimeMul |-> e.RegimeMul]

Range(q) == {q[k] : k \in SeqIdx(q)}

IMin(a, b) == IF a < b THEN a ELSE b

\* C10: with optimization enabled the leaderboard has min(max_samples, |grid|)
\* entries, one for each of the first that many sets of the shuffled grid,
\* and no parameter combination twice.
C10_LeaderboardCardinality ==
    gridPc = "returned" /\ boolValue(optimization.Enable, TRUE) =>
        LET n == IMin(optimization.MaxSamples, Len(generateParamSets))
        IN  /\ Len(leaderboard) = n
            /\ Len(sets) = Len(generateParamSets)
            /\ Range(sets) = Range(generateParamSets)
            /\ {ParamsOf(leaderboard[k]) : k \in SeqIdx(leaderboard)}
                  = {sets[k] : k \in 1..n}
            /\ \A a, b \in SeqIdx(leaderboard) :
                  a # b => ParamsOf(leaderboard[a]) # ParamsOf(leaderboard[b])

C10_Witness ==
    /\ gridPc = "returned"
    /\ boolValue(optimization.Enable, TRUE)
    /\ optimization.MaxSamples >= 2
    /\ optimization.MaxSamples < Len(generateParamSets)
    /\ Len(leaderboard) = optimization.MaxSamples
    /\ sets # generateParamSets
    /\ leaderboard # entries

\* The tuples the loop ran: the first sampleSize sets of the shuffled grid.
Sampled == {sets[k] : k \in 1..sampleSize(optimization, Len(sets))}

BaselineCalmar == calcCalmar(BaselineResult.CAGR, BaselineResult.MaxDD)

\* C11 as stated: when the grid contains the tuple of the baseline run, the
\* first entry of the leaderboard has calmar >= the calmar of the baseline.
C11_AsStated ==
    (/\ gridPc = "returned"
     /\ boolValue(optimization.Enable, TRUE)
     /\ baseline.Params \in Range(generateParamSets))
        => RLe(BaselineCalmar, leaderboard[1].Calmar)

\* C11, amended: when the sampled sets contain the tuple of the baseline run
\* and the baseline ran without the portfolio layer, the first entry of the
\* leaderboard has calmar >= the calmar of the baseline, and no entry has more.
C11_BestAtLeastSampledBaseline ==
    (/\ gridPc = "returned"
     /\ boolValue(optimization.Enable, TRUE))
        => /\ \A k \in SeqIdx(leaderboard) :
                 RLe(leaderboard[k].Calmar, leaderboard[1].Calmar)
           /\ (baseline.Params \in Sampled /\ ~baseline.UsePortfolio)
                 => RLe(BaselineCalmar, leaderboard[1].Calmar)

C11_Witness ==
    /\ gridPc = "returned"
    /\ boolValue(optimization.Enable, TRUE)
    /\ baseline.Params \in Sampled
    /\ ~baseline.UsePortfolio
    /\ Len(leaderboard) >= 2
    /\ ParamsOf(leaderboard[1]) # baseline.Params
    /\ RLt(BaselineCalmar, leaderboard[1].Calmar)

ParamFields ==
    <<"TrendGain", "MRGain", "BreakoutGain", "RiskTarget", "ATRStop", "ATRTrail",
      "RegimeMul">>

\* Lexicographic comparison of the parameter tuples of two entries.
TupleBefore(a, b) ==
    \E k \in SeqIdx(ParamFields) :
        /\ RLt(a[ParamFields[k]], b[ParamFields[k]])
        /\ \A j \in 1..(k - 1) : a[ParamFields[j]] = b[ParamFields[j]]

\* C12: the leaderboard is ordered by calmar descending, then sharpe
\* descending, and entries equal in both by their parameter tuples in
\* lexicographic order.
C12_TotalOrder ==
    gridPc = "returned" =>
        \A a, b \in SeqIdx(leaderboard) :
            a < b =>
                \/ RLt(leaderboard[b].Calmar, leaderboard[a].Calmar)
                \/ /\ leaderboard[a].Calmar = leaderboard[b].Calmar
                   /\ RLt(leaderboard[b].Sharpe, leaderboard[a].Sharpe)
                \/ /\ leaderboard[a].Calmar = leaderboard[b].Calmar
                   /\ leaderboard[a].Sharpe = leaderboard[b].Sharpe
                   /\ TupleBefore(leaderboard[a], leaderboard[b])

\* ------------------------------------------------------------------------
\* Properties of the drawdown circuit
\* ------------------------------------------------------------------------
IsCandle(k) == ddLog[k].kind = "candle"

\* Number of candles processed after call a, up to and including call b.
CandlesIn(a, b) == Cardinality({k \in (a + 1)..b : IsCandle(k)})

CooldownBars == nonZeroOr(riskCfg.DDCooldownBars, 96)

\* The candle at which the drawdown first reaches the threshold.
FirstOver ==
    {a \in SeqIdx(ddLog) : /\ IsCandle(a)
                           /\ ddLog[a].over
                           /\ \A k \in 1..(a - 1) : ~ddLog[k].over}

\* The n-th candle processed after call a (a itself for n = 0).
NthCandleAfter(a, n) ==
    {x \in SeqIdx(ddLog) : x >= a /\ IsCandle(x) /\ CandlesIn(a, x) = n}

NoSummary == \A k \in SeqIdx(ddLog) : ddLog[k].kind # "summary"

\* Exactly one window, from candle a to candle x; the scaler is 0.5 at every
\* call between the two and 1.0 from x on.
OneWindow(a, x) ==
    /\ adapter.ddEvents = <<[Start |-> ddLog[a].ts, End |-> ddLog[x].ts]>>
    /\ \A k \in a..(x - 1) : ddLog[k].scaler = Rat(1, 2)
    /\ \A k \in x..Len(ddLog) : ddLog[k].scaler = ROne
    /\ adapter.ddScaler = ROne

Activations == {a \in SeqIdx(ddLog) : ddLog[a].trig}

\* The calls that end the reporting of activation a: the candle at which its
\* cooldown expires and every Summary called after it.
Closers(a) ==
    NthCandleAfter(a, CooldownBars - 1)
        \cup {x \in SeqIdx(ddLog) : x > a /\ ddLog[x].kind = "summary"}

FirstCloser(a) == CHOOSE x \in Closers(a) : \A y \in Closers(a) : x <= y

\* ts of the last candle processed up to and including call x.
LastCandleTs(x) ==
    LET ks == {k \in 1..x : IsCandle(k)}
    IN  ddLog[CHOOSE k \in ks : \A j \in ks : j <= k].ts

ReportedActivations == {a \in Activations : Closers(a) # {}}

NthReported(j) ==
    CHOOSE a \in ReportedActivations :
        Cardinality({b \in ReportedActivations : b <= a}) = j

\* C19: the windows of the adapter are, in order, one per activation whose
\* cooldown has expired or after which Summary has been called, from the
\* activating candle to the expiry candle or, when Summary came first, to the
\* last candle processed before that Summary; an activation that neither
\* expired nor was summarised has no window, and a later Summary or expiry adds
\* none.  Summary returns exactly these windows.
C19_WindowOnce ==
    /\ Len(adapter.ddEvents) = Cardinality(ReportedActivations)
    /\ \A j \in 1..Len(adapter.ddEvents) :
          adapter.ddEvents[j] = [Start |-> ddLog[NthReported(j)].ts,
                                 End |-> LastCandleTs(FirstCloser(NthReported(j)))]
    /\ (Len(ddLog) > 0 /\ ddLog[Len(ddLog)].kind = "summary")
          => summary = adapter.ddEvents

\* An activation reported by Summary while active, whose cooldown expires
\* afterwards and is followed by a second Summary.
C19_Witness ==
    /\ Len(ddLog) > 0
    /\ ddLog[Len(ddLog)].kind = "summary"
    /\ Len(summary) = 1
    /\ \E a \in Activations :
       \E x \in (a + 1)..Len(ddLog) :
       \E e \in NthCandleAfter(a, CooldownBars - 1) :
          /\ ddLog[x].kind = "summary"
          /\ x < e
          /\ e < Len(ddLog)
          /\ summary[1] = [Start |-> ddLog[a].ts, End |-> ddLog[a].ts]

\* ------------------------------------------------------------------------
\* Properties of the stops under the kernel
\* ------------------------------------------------------------------------
\* The bar of the instrument in the current group, if it has one.
BarOf(n) == {k \in 1..Len(group) : group[k].InstID = n}

\* Coming into the current group the instrument is held long, by the kernel
\* and by the overlay, and its last close is at or below entry - atr_stop_k * atr.
StopDue(n) ==
    LET st == start.ra.states[n]
    IN  /\ hasRisk
        /\ RLt(RZero, start.states[n].pos)
        /\ RLt(RZero, st.position)
        /\ RLt(RZero, st.atr)
        /\ RLt(RZero, st.entryPrice)
        /\ RLe(st.lastClose,
               RSub(st.entryPrice, RMul(riskCfg.ATRStopK, st.atr)))

AfterApprove == pc \in {"applyret", "fill", "roll", "record"}

\* C14: when a long position's price has dropped to entry - atr_stop_k * atr or
\* lower at a bar, the stop has fired by the time the instrument's next bar has
\* been approved (its stop count is 1), and a trade closed by the fill of
\* that bar is a long trade with a negative return.
C14_AsStated ==
    \A n \in Insts :
        (StopDue(n) /\ BarOf(n) # {} /\ AfterApprove
            /\ start.ra.stopCounts["atr_stop"] = 0) =>
            /\ ra.stopCounts["atr_stop"] = 1
            /\ (pc \in {"roll", "record"} /\ ~cfg.TradeOnNextBar) =>
                  /\ Len(trades) = 1
                  /\ trades[1].Dir = "long"
                  /\ RLt(trades[1].Return, ROne)

\* ------------------------------------------------------------------------
\* Properties of the run on a flat series
\* ------------------------------------------------------------------------
RECURSIVE RProd(_, _, _)
RProd(a, lo, hi) ==
    IF lo > hi THEN ROne
    ELSE IF lo = hi THEN a[lo]
    ELSE LET mid == (lo + hi) \div 2
         IN  RMul(RProd(a, lo, mid), RProd(a, mid + 1, hi))

\* sharpe(aggRets, barAnn) = 0: fewer than 30 returns, no variance or a zero
\* mean (the returns are carried as their exponentials).
sharpeIsZero(rets) ==
    \/ Len(rets) < 30
    \/ \A a, b \in 1..Len(rets) : rets[a] = rets[b]
    \/ RProd(rets, 1, Len(rets)) = ROne

\* C15: on 200 bars whose open, high, low and close are all 100 the run of the
\* wired engine closes no trade, ends with the initial equity, and has
\* max_dd = 0 and sharpe = 0.
C15_AsStated ==
    pc = "done" =>
        /\ Len(result.Trades) = 0
        /\ result.FinalEquity = cfg.InitialEquity
        /\ result.MaxDD = RZero
        /\ sharpeIsZero([k \in 1..Len(result.EquityCurve) |-> result.EquityCurve[k].Ret])

\* ------------------------------------------------------------------------
\* Properties of the configuration
\* ------------------------------------------------------------------------
Normalized == runnerPc \in {"built", "ran", "nodata"}

\* The nested tunable and its legacy flat field are both omitted.
Omitted(x, legacy) == x = RZero /\ legacy = RZero

\* C16: a tunable omitted together with its legacy flat counterpart is given
\* its documented default by normalize: trend_gain 2.0, mr_gain 0.7,
\* fallback.scale 0.25, risk_target 0.6, max_leverage 2.0, max_abs_position 1.5.
C16_AsStated ==
    Normalized =>
        /\ Omitted(rawConfig.Strategy.TrendGain, rawConfig.StrategyTrendGain)
              => config.Strategy.TrendGain = RInt(2)
        /\ Omitted(rawConfig.Strategy.MRGain, rawConfig.StrategyMRGain)
              => config.Strategy.MRGain = Rat(7, 10)
        /\ Omitted(rawConfig.Strategy.Fallback.Scale, rawConfig.FallbackScale)
              => config.Strategy.Fallback.Scale = Rat(25, 100)
        /\ Omitted(rawConfig.Risk.RiskTarget, rawConfig.StrategyRiskTarget)
              => config.Risk.RiskTarget = Rat(6, 10)
        /\ Omitted(rawConfig.Risk.MaxLeverage, rawConfig.StrategyMaxLeverage)
              => config.Risk.MaxLeverage = RInt(2)
        /\ Omitted(rawConfig.Risk.MaxAbsPosition, rawConfig.StrategyMaxAbsPosition)
              => config.Risk.MaxAbsPosition = Rat(15, 10)

SupportedTimeframes == {"1m", "5m", "15m", "30m", "1h", "4h", "1d"}

\* C17: with a timeframe that is none of 1m, 5m, 15m, 30m, 1h, 4h, 1d no
\* backtest is executed: building or running the runner returns an error.
C17_AsStated ==
    runnerPc = "ran" => lowerTrim(rawConfig.Timeframe) \in SupportedTimeframes

\* ------------------------------------------------------------------------
\* Properties of Engine.Run on zero or negative closes
\* ------------------------------------------------------------------------
IsFinite(x) == x[2] # 0

\* The bar closes at or below zero and its instrument came into the group
\* with a position.
BadHeld(k) == group[k].C <= 0 /\ start.states[group[k].InstID].pos # RZero

\* C18: a bar with close <= 0 for an instrument that holds a position counts
\* as a return of 0: the equity of every recorded point is finite and strictly
\* positive, and a group whose held bars all close at or below zero leaves
\* equity as it was.
C18_AsStated ==
    /\ \A k \in 1..Len(curve) :
          IsFinite(curve[k].Equity) /\ RLt(RZero, curve[k].Equity)
    /\ (/\ pc = "fill"
        /\ \E k \in 1..Len(group) : BadHeld(k)
        /\ \A k \in 1..Len(group) :
              start.states[group[k].InstID].pos # RZero => group[k].C <= 0)
          => eq = start.eq

\* ------------------------------------------------------------------------
\* Properties of the fallback gate
\* ------------------------------------------------------------------------
FallbackEnabled == stratCfg.FallbackEnable # "false"

Light(x) == RLt(RAbs(x), Rat(1, 10))

GatePositions == {Rat(-1, 5), Rat(-1, 10), Rat(-1, 20), RZero, Rat(1, 20),
                  Rat(99, 1000), Rat(1, 10), Rat(1, 5)}

\* C20: shouldUseFallback(raw, strong) is true iff fallback is enabled, strong
\* is false and |raw| < 0.1; in OnCandle the fallback component is non-zero
\* only when the regime is neutral and |raw| < 0.1, it is then added to raw,
\* and fallback_usage increases by 1 exactly when it is non-zero.
C20_FallbackGate ==
    /\ \A pos \in GatePositions, strong \in BOOLEAN :
          shouldUseFallback(stratCfg, pos, strong)
              <=> (FallbackEnabled /\ ~strong /\ Light(pos))
    /\ composed # <<>> =>
          /\ composed.gate <=> (FallbackEnabled /\ ~composed.strong /\ Light(composed.raw))
          /\ composed.fallback # RZero =>
                /\ composed.regime = "neutral"
                /\ Light(composed.raw)
                /\ composed.fallback = composed.fb
          /\ composed.posRaw = RAdd(composed.raw, composed.fallback)
          /\ strat.fallbackUse =
                composed.useBefore + (IF composed.fallback # RZero THEN 1 ELSE 0)

\* A neutral regime with a light raw target to which a non-zero fallback was
\* added, after a call in a strong regime with a light raw target that got none.
C20_Witness ==
    /\ composed # <<>>
    /\ composed.regime = "neutral"
    /\ composed.raw # RZero
    /\ Light(composed.raw)
    /\ composed.fallback # RZero
    /\ strat.fallbackUse = 1
    /\ strat.regimeCounts["trending"] = 1

\* ------------------------------------------------------------------------
\* Properties of the regime weights
\* ------------------------------------------------------------------------
GainsOf(sc) == [trend |-> sc.TrendGain, mr |-> sc.MRGain, breakout |-> sc.BreakoutGain]

\* C21: computeWeights returns (trend_gain*1.35, mr_gain*0.65, breakout_gain*1.25)
\* for trending, (trend_gain*0.60, mr_gain*1.50, breakout_gain*0.60) for ranging
\* and the gains themselves for neutral; the trend weight rises and the mr
\* weight falls in trending, and the reverse in ranging.
C21_RegimeWeights ==
    composed # <<>> =>
        LET g == GainsOf(stratCfg)
            w == composed.weights
        IN  /\ composed.regime = "trending" =>
                  /\ w = [trend |-> RMul(g.trend, Rat(135, 100)),
                          mr |-> RMul(g.mr, Rat(65, 100)),
                          breakout |-> RMul(g.breakout, Rat(125, 100))]
                  /\ RLt(g.trend, w.trend)
                  /\ RLt(w.mr, g.mr)
            /\ composed.regime = "ranging" =>
                  /\ w = [trend |-> RMul(g.trend, Rat(60, 100)),
                          mr |-> RMul(g.mr, Rat(150, 100)),
                          breakout |-> RMul(g.breakout, Rat(60, 100))]
                  /\ RLt(w.trend, g.trend)
                  /\ RLt(g.mr, w.mr)
            /\ composed.regime = "neutral" => w = g

\* The ranging weights of gains that differ from one another and from the defaults.
C21_Witness ==
    /\ composed # <<>>
    /\ composed.regime = "ranging"
    /\ GainsOf(stratCfg) = [trend |-> RInt(3), mr |-> Rat(1, 2), breakout |-> Rat(18, 10)]
    /\ composed.weights.mr = Rat(3, 4)

\* ------------------------------------------------------------------------
\* Properties of volatility targeting
\* ------------------------------------------------------------------------
VolLogged == approveLog # <<>> /\ "result" \in DOMAIN approveLog[1]

\* risk_target * dd_scaler as the logged call read it.
VolBudget == RMul(riskCfg.RiskTarget, approveLog[1].ddScaler)

VolSigma == RDiv(approveLog[1].atr, approveLog[1].price)

VolDefined == RLt(RZero, approveLog[1].atr) /\ RLt(RZero, approveLog[1].price)

\* C22: applyVolTarget returns
\* target * min(risk_target * dd_scaler / max(atr/price, 1e-6), max_leverage)
\* when atr > 0 and price > 0 and target otherwise; |result| < |target| when
\* target # 0 and atr/price > risk_target * dd_scaler.
C22_VolTarget ==
    VolLogged =>
        LET c == approveLog[1]
        IN  /\ VolDefined =>
                  c.result = RMul(c.target,
                                  RMin(RDiv(VolBudget, RMax(VolSigma, Rat(1, 1000000))),
                                       riskCfg.MaxLeverage))
            /\ ~VolDefined => c.result = c.target
            /\ (VolDefined /\ c.target # RZero /\ RLt(VolBudget, VolSigma))
                  => RLt(RAbs(c.result), RAbs(c.target))

\* A target cut down while the drawdown circuit halves the risk budget:
\* atr/price = 3 lies between the halved budget 1.5 and the full budget 3.
C22_Witness ==
    /\ VolLogged
    /\ VolDefined
    /\ approveLog[1].ddScaler = Rat(1, 2)
    /\ riskCfg.RiskTarget = RInt(3)
    /\ approveLog[1].target = ROne
    /\ approveLog[1].price = ROne
    /\ approveLog[1].result = Rat(1, 2)

\* ------------------------------------------------------------------------
\* Properties of the attribution
\* ------------------------------------------------------------------------
\* The bucket a trade belongs to: its sub-strategy without surrounding white
\* space, or unknown when nothing is left.
BucketOf(k) ==
    LET name == trimSpace(trades[k].SubStrategy)
    IN  IF name = "" THEN "unknown" ELSE name

TradesIn(key) == {k \in 1..Len(trades) : BucketOf(k) = key}

RECURSIVE ReturnOver(_)
ReturnOver(S) ==
    IF S = {} THEN RZero
    ELSE LET k == CHOOSE x \in S : \A y \in S : y <= x
         IN  RAdd(ReturnOver(S \ {k}), trades[k].Return)

RECURSIVE CountOver(_)
CountOver(K) ==
    IF K = {} THEN 0
    ELSE LET key == CHOOSE x \in K : TRUE
         IN  analytics[key].Trades + CountOver(K \ {key})

\* C23: every trade falls into the one bucket of its sub-strategy (unknown when
\* it has none); the buckets are those of trend, mr, breakout and fallback and
\* of the names that occur; their trade counts sum to the number of trades,
\* and each bucket has the count, the summed return and wins/trades of its
\* trades.
C23_Attribution ==
    runnerPc = "analysed" =>
        /\ DOMAIN analytics = AttributionBuckets \cup {BucketOf(k) : k \in 1..Len(trades)}
        /\ CountOver(DOMAIN analytics) = Len(trades)
        /\ \A key \in DOMAIN analytics :
              LET mine == TradesIn(key)
                  wins == {k \in mine : RLt(RZero, trades[k].Return)}
              IN  /\ analytics[key].Trades = Cardinality(mine)
                  /\ analytics[key].TotalReturn = ReturnOver(mine)
                  /\ mine # {} =>
                        analytics[key].WinRate = Rat(Cardinality(wins), Cardinality(mine))

\* Two trades of one bucket, a win and a loss, and a trade without a name;
\* the other named buckets are empty.
C23_Witness ==
    /\ runnerPc = "analysed"
    /\ Len(trades) = 3
    /\ analytics["trend"].Trades = 2
    /\ analytics["trend"].WinRate = Rat(1, 2)
    /\ analytics["trend"].TotalReturn = Rat(1, 100)
    /\ "unknown" \in DOMAIN analytics
    /\ analytics["mr"].Trades = 0

\* ------------------------------------------------------------------------
\* Properties of the approve-and-schedule step
\* ------------------------------------------------------------------------
\* The step leaves positions alone, so after it a target is worth a rebalance
\* when it is at least min_rebalance_step away from the position.
WorthRebalance(n) ==
    ~RLt(RAbs(RSub(targets[n], states[n].pos)), cfg.MinRebalanceStep)

SizedLayouts ==
    {[k \in Insts |-> IF k = "A" THEN a ELSE b] :
        a \in {<<1, 2, 3>>, <<1, 4, 5>>}, b \in {<<>>, <<1>>}}

SizedSignalSizes == {ROne, RInt(2)}

\* Positions up to 2, and a taker rebate that offsets the default slippage, so
\* that a fill costs what the AfterFill hook charges and nothing else.
SizedConfigs ==
    {[c EXCEPT !.MaxAbsPosition = RInt(2), !.TakerFeeBps = RInt(-3)] : c \in RawConfigs}

InitSized ==
    /\ InitRun(SizedConfigs, BOOLEAN, SizedLayouts, 1, "begin")
    /\ RunnerIdle
    /\ RiskIdle
    /\ GridIdle

CollectSizedSignals == CollectSignalsOf({"buy", "sell", "close"}, SizedSignalSizes)

NextSized ==
    \/ BeginGroup
    \/ AccumulateReturn
    \/ PropagateCandles
    \/ CollectSizedSignals
    \/ ApproveAndSchedule
    \/ ApplyReturn
    \/ ApplyDuePendings
    \/ RollState
    \/ RecordEquity
    \/ Finish

SpecSized == InitSized /\ [][NextSized]_vars

\* ------------------------------------------------------------------------
\* The run on a series that holds two bars of one instrument at one timestamp
\* ------------------------------------------------------------------------
\* Four bars of A in three timestamp groups, the first or the second group
\* holding two of them.
DupLayouts ==
    {[k \in Insts |-> IF k = "A" THEN a ELSE <<>>] :
        a \in {<<1, 1, 2, 3>>, <<1, 2, 2, 3>>}}

InitDup ==
    /\ InitRun(SizedConfigs, BOOLEAN, DupLayouts, 1, "begin")
    /\ RunnerIdle
    /\ RiskIdle
    /\ GridIdle

SpecDup == InitDup /\ [][NextSized]_vars

\* ------------------------------------------------------------------------
\* Properties of applyFill
\* ------------------------------------------------------------------------
\* The pending of the instrument is applied in step 2.6 of the current group.
FillDue(n) ==
    /\ BarOf(n) # {}
    /\ states[n].pendingTarget.set
    /\ ts >= states[n].pendingTarget.applyAt

\* It changes the position: a fill.
IsFill(n) == FillDue(n) /\ states[n].pendingTarget.target # states[n].pos

FillTarget(n) == states[n].pendingTarget.target

ClosingFill(n) ==
    /\ IsFill(n)
    /\ states[n].pos # RZero
    /\ (FillTarget(n) = RZero \/ sign(FillTarget(n)) # sign(states[n].pos))

\* The price of the fill: the reference price of the bar, or the price a
\* BeforeFill hook put in its place.
FillPrice(n) ==
    LET k == group[CHOOSE x \in BarOf(n) : TRUE]
    IN  BookedPrice([inst |-> n, ref |-> IF cfg.TradeOnNextBar THEN RInt(k.O) ELSE RInt(k.C)])

\* The instruments of the closing fills of the group, in the order of its bars.
ClosingInsts ==
    LET ks == {k \in 1..Len(group) : ClosingFill(group[k].InstID)}
    IN  [j \in 1..Cardinality(ks) |->
            group[CHOOSE k \in ks : Cardinality({m \in ks : m <= k}) = j].InstID]

\* What step 2.6 does to the trades and to the stored entries.
FillEffects ==
    /\ Len(trades') = Len(trades) + Len(ClosingInsts)
    /\ \A j \in 1..Len(ClosingInsts) :
          LET n == ClosingInsts[j]
              tr == trades'[Len(trades) + j]
          IN  /\ tr.InstID = n
              /\ tr.Dir = (IF RLt(RZero, states[n].pos) THEN "long" ELSE "short")
              /\ tr.Size = RAbs(states[n].pos)
              /\ tr.EntryTime = states[n].entryTs
              /\ tr.EntryPrice = states[n].entryPx
              /\ tr.ExitTime = ts
              /\ tr.ExitPrice = FillPrice(n)
    /\ \A n \in Insts :
          LET entry == <<states'[n].entryPx, states'[n].entryTs>>
          IN  IF IsFill(n) /\ FillTarget(n) = RZero
              THEN entry = <<RZero, 0>>
              ELSE IF IsFill(n) /\ (states[n].pos = RZero \/ ClosingFill(n))
              THEN entry = <<FillPrice(n), ts>>
              ELSE entry = <<states[n].entryPx, states[n].entryTs>>

\* In any step the trades recorded so far stay as they are, and outside step
\* 2.6 no trade is added and no stored entry changes.
TradesKept ==
    /\ Len(trades') >= Len(trades)
    /\ SubSeq(trades', 1, Len(trades)) = trades
    /\ pc # "fill" =>
          /\ trades' = trades
          /\ \A n \in Insts : /\ states'[n].entryPx = states[n].entryPx
                               /\ states'[n].entryTs = states[n].entryTs

\* C25: a fill appends exactly one Trade iff it is closing, with dir and size
\* of the position before the fill, entry = the stored entry price and ts and
\* exit = (ts, price of the fill); any other fill appends none; the stored
\* entry becomes (price of the fill, ts) on an open from flat or a sign flip,
\* is cleared on a close to zero and is left alone on a same-sign resize;
\* recorded trades are never modified.
C25_FillTrades == [][TradesKept /\ (pc = "fill" => FillEffects)]_vars

\* A long opened, resized without a change of sign, then flipped short: the one
\* trade has the entry of the opening fill and the size of the resized long,
\* and the short is entered where the trade exits.
C25_Witness ==
    \E n \in Insts :
        /\ Len(trades) = 1
        /\ trades[1].InstID = n
        /\ trades[1].Dir = "long"
        /\ \E a, b, c \in SeqIdx(fills) :
              /\ a < b /\ b < c
              /\ fills[a].inst = n /\ fills[b].inst = n /\ fills[c].inst = n
              /\ trades[1].EntryTime = fills[a].ts
              /\ trades[1].Size = fills[b].target
              /\ fills[b].target # fills[a].target
              /\ trades[1].ExitTime = fills[c].ts
        /\ RLt(states[n].pos, RZero)
        /\ states[n].entryTs = trades[1].ExitTime
        /\ states[n].entryPx = trades[1].ExitPrice

\* C26: at every point of the run, after every fill and at the end of every
\* timestamp group included, an instrument whose position is 0 has
\* entry_price = 0 and entry_ts = 0.
C26_FlatHasNoEntry ==
    \A n \in Insts :
        states[n].pos = RZero => states[n].entryPx = RZero /\ states[n].entryTs = 0

\* Step 2.6 has just closed to zero a position that had a stored entry.
C26_Witness ==
    /\ pc = "roll"
    /\ \E n \in Insts :
          /\ start.states[n].pos # RZero
          /\ start.states[n].entryPx # RZero
          /\ start.states[n].entryTs # 0
          /\ states[n].pos = RZero
          /\ \E k \in SeqIdx(trades) : trades[k].InstID = n /\ trades[k].ExitTime = ts

\* ------------------------------------------------------------------------
\* Properties of the pendings
\* ------------------------------------------------------------------------
\* C27 as stated: at every point of the run an outstanding pending has
\* apply_ts >= the timestamp of the group being processed.
C27_AsStated ==
    \A n \in Insts :
        states[n].pendingTarget.set => states[n].pendingTarget.applyAt >= ts

\* C27: once step 2.6 of a group has run, and until the next group begins, an
\* instrument that has a bar in the group has no outstanding pending with
\* apply_ts <= the timestamp of the group.
C27_DueCleared ==
    pc \in {"roll", "record", "begin"} =>
        \A n \in Insts :
            BarOf(n) # {} /\ states[n].pendingTarget.set =>
                states[n].pendingTarget.applyAt > ts

\* Step 2.6 has just applied a pending whose apply_ts had passed, to an
\* instrument with a bar in the group, and has left the overdue pending of an
\* instrument without one.
C27_Witness ==
    /\ pc = "roll"
    /\ \E n, m \in Insts :
          /\ BarOf(n) # {}
          /\ start.states[n].pendingTarget.set
          /\ start.states[n].pendingTarget.applyAt < ts
          /\ ~states[n].pendingTarget.set
          /\ BarOf(m) = {}
          /\ states[m].pendingTarget.set
          /\ states[m].pendingTarget.applyAt < ts

\* ------------------------------------------------------------------------
\* Properties of the ATR stops
\* ------------------------------------------------------------------------
StopDist == RMul(riskCfg.ATRStopK, approveLog[1].st.atr)

TrailDist == RMul(riskCfg.ATRTrailK, approveLog[1].st.atr)

\* The last call was an Approve on a tracked non-zero position with atr > 0,
\* entry_price > 0 and price > 0.
StopsChecked ==
    /\ approveLog # <<>>
    /\ approveLog[1].st.position # RZero
    /\ RLt(RZero, approveLog[1].st.atr)
    /\ RLt(RZero, approveLog[1].st.entryPrice)
    /\ RLt(RZero, approveLog[1].price)

InitialStopHolds ==
    LET c == approveLog[1]
    IN  \/ RLt(RZero, c.st.position) /\ RLe(c.price, RSub(c.st.entryPrice, StopDist))
        \/ RLt(c.st.position, RZero) /\ RLe(RAdd(c.st.entryPrice, StopDist), c.price)

TrailingStopHolds ==
    LET c == approveLog[1]
    IN  \/ RLt(RZero, c.st.position) /\ RLe(c.price, RSub(c.st.maxFavorable, TrailDist))
        \/ RLt(c.st.position, RZero) /\ RLe(RAdd(c.st.maxFavorable, TrailDist), c.price)

\* The call returned (0, [close action of the reason]), counted the reason once
\* and reset the tracked position, entry_price and max_favorable.
StoppedFor(reason) ==
    LET c == approveLog[1]
    IN  /\ c.approved = RZero
        /\ c.acts = <<[InstID |-> c.inst, Type |-> "close", Reason |-> reason,
                       Size |-> RAbs(c.st.position), Price |-> c.price]>>
        /\ adapter.stopCounts = [c.stopCounts EXCEPT ![reason] = @ + 1]
        /\ adapter.states[c.inst].position = RZero
        /\ adapter.states[c.inst].entryPrice = RZero
        /\ adapter.states[c.inst].maxFavorable = RZero

\* C28: Approve on a tracked non-zero position with atr > 0, entry_price > 0
\* and price > 0 closes for atr_stop when the initial-stop condition holds,
\* whether or not the trailing condition holds too, and otherwise for atr_trail
\* when the trailing condition holds; either way the reason is counted once and
\* the tracked position, entry_price and max_favorable are reset to 0; when
\* neither holds there is no action and stop_counts is unchanged.
C28_StopOrder ==
    StopsChecked =>
        IF InitialStopHolds THEN StoppedFor("atr_stop")
        ELSE IF TrailingStopHolds THEN StoppedFor("atr_trail")
        ELSE /\ approveLog[1].acts = <<>>
             /\ adapter.stopCounts = approveLog[1].stopCounts

\* An Approve whose price met the initial and the trailing stop at once and
\* that closed for atr_stop.
C28_Witness ==
    /\ StopsChecked
    /\ InitialStopHolds
    /\ TrailingStopHolds
    /\ StoppedFor("atr_stop")
    /\ adapter.stopCounts["atr_stop"] = 1

ClampedPos ==
    clamp(composed.posRaw, RNeg(strategyMaxAbsPosition(riskCfg)),
          strategyMaxAbsPosition(riskCfg))

EmitThreshold == Rat(1, 10000)

\* C30: OnCandle returns no signal until it has received 50 bars of the
\* instrument; from the 50th bar on it returns exactly one signal when the
\* clamped target has |pos| >= 1e-4 and none otherwise, and the signal is for
\* the instrument, buy for a positive and sell for a negative target, of size
\* |pos| with 1e-4 <= size <= max_abs_position.
C30_WarmupAndEmission ==
    composed # <<>> =>
        IF composed.fed[composed.inst] < warmupBars THEN composed.sigs = <<>>
        ELSE IF RLt(RAbs(ClampedPos), EmitThreshold) THEN composed.sigs = <<>>
        ELSE /\ Len(composed.sigs) = 1
             /\ composed.sigs[1].InstID = composed.inst
             /\ composed.sigs[1].Side = (IF RLt(RZero, ClampedPos) THEN "buy" ELSE "sell")
             /\ composed.sigs[1].Side \in {"buy", "sell"}
             /\ composed.sigs[1].Size = RAbs(ClampedPos)
             /\ RLe(EmitThreshold, composed.sigs[1].Size)
             /\ RLe(composed.sigs[1].Size, strategyMaxAbsPosition(riskCfg))

\* The 50th bar of an instrument has just produced a signal, while the other
\* instrument, fed fewer bars, has produced none.
C30_Witness ==
    /\ composed # <<>>
    /\ composed.fed[composed.inst] = warmupBars
    /\ Len(composed.sigs) = 1
    /\ \E n \in Insts : n # composed.inst /\ composed.fed[n] > 0

\* ------------------------------------------------------------------------
\* Properties of the multi-timeframe gate
\* ------------------------------------------------------------------------
\* (mtf_fast - mtf_slow) * trend_signal of the last call.
MTFProduct == RMul(RSub(composed.fast, composed.slow), composed.trendSignal)

\* C31 as stated: with MTF confirmation enabled, a call with
\* (mtf_fast - mtf_slow) * trend_signal < 0 returns 0.6 and adds 1 to
\* mtf_filtered whatever trend_align is, and 1.25 is returned, with mtf_aligned
\* incremented, only when the two are aligned and trend_align is on.
C31_AsStated ==
    (composed # <<>> /\ stratCfg.MTFConfirmEnable # "false") =>
        /\ RLt(MTFProduct, RZero) =>
              /\ composed.scaler = Rat(6, 10)
              /\ strat.mtfFiltered = composed.filtered + 1
        /\ composed.scaler = Rat(125, 100) =>
              /\ RLt(RZero, MTFProduct)
              /\ stratCfg.MTFTrendAlign # "false"
              /\ strat.mtfAligned = composed.aligned + 1

\* ------------------------------------------------------------------------
\* Properties of the attribution label
\* ------------------------------------------------------------------------
\* An OnCandle call that emitted a signal.
Emitted == composed # <<>> /\ composed.sigs # <<>>

LargestPart ==
    RMax(RMax(RAbs(composed.trend), RAbs(composed.mr)),
         RMax(RAbs(composed.breakout), RAbs(composed.fallback)))

\* C32 as stated: the label of an emitted signal names a component whose
\* absolute value is the largest of the four.
C32_AsStated ==
    Emitted => RAbs(composed[composed.sub]) = LargestPart

\* C32: the label of an emitted signal is fallback whenever the fallback
\* component is non-zero; otherwise it is the first of trend, mr and breakout
\* whose absolute value is the largest of the three.
C32_DominantLabel ==
    Emitted =>
        /\ composed.fallback # RZero => composed.sub = "fallback"
        /\ composed.fallback = RZero =>
              /\ composed.sub \in {"trend", "mr", "breakout"}
              /\ \A k \in {"trend", "mr", "breakout"} :
                     RLe(RAbs(composed[k]), RAbs(composed[composed.sub]))
              /\ composed.sub = "mr" => RLt(RAbs(composed.trend), RAbs(composed.mr))
              /\ composed.sub = "breakout" =>
                     /\ RLt(RAbs(composed.trend), RAbs(composed.breakout))
                     /\ RLt(RAbs(composed.mr), RAbs(composed.breakout))

\* A signal labelled fallback whose trend component is larger than the fallback.
C32_Witness ==
    /\ Emitted
    /\ composed.sub = "fallback"
    /\ RLt(RAbs(composed.fallback), RAbs(composed.trend))

\* ------------------------------------------------------------------------
\* Properties of the wired portfolio engine
\* ------------------------------------------------------------------------
\* C33 as stated: a Propose at a timestamp that is not a multiple of
\* rebalance_interval_bars returns the weights returned before, with turnover 0.
C33_AsStated ==
    (proposed # <<>> /\ proposed.n % portfolio.RebalanceIntervalBars # 0) =>
        /\ proposed.final = proposed.before
        /\ proposed.turnover = RZero

\* ------------------------------------------------------------------------
\* Properties of the trade records
\* ------------------------------------------------------------------------
\* The meta every signal of the run supplies.
SuppliedMeta == [sub_strategy |-> "trend", regime |-> "trending", atr |-> Rat(3, 2)]

\* Reading a field of a Trade: the zero value when applyFill did not set it.
TradeField(tr, field, zero) == IF field \in DOMAIN tr THEN tr[field] ELSE zero

\* C34 as stated: every trade carries the sub_strategy, regime and
\* atr_on_entry that the opening signal supplied in its meta.
C34_AsStated ==
    \A k \in 1..Len(trades) :
        /\ TradeField(trades[k], "SubStrategy", "") = SuppliedMeta.sub_strategy
        /\ TradeField(trades[k], "Regime", "") = SuppliedMeta.regime
        /\ TradeField(trades[k], "ATROnEntry", RZero) = SuppliedMeta.atr

\* ------------------------------------------------------------------------
\* Properties of the drawdown circuit between timestamp groups
\* ------------------------------------------------------------------------
\* The last call was an OnCandle.
AfterOnCandle == ddLog # <<>> /\ IsCandle(Len(ddLog))

ScalerAndCooldown ==
    /\ adapter.ddScaler \in {Rat(1, 2), ROne}
    /\ adapter.ddScaler = Rat(1, 2) <=> adapter.ddCooldown > 0
    /\ 0 <= adapter.ddCooldown /\ adapter.ddCooldown < CooldownBars
    /\ RLe(adapter.equity, adapter.peakEquity)

\* An OnCandle that finds the cooldown running only counts it down.
NoRetrigger ==
    \A k \in SeqIdx(ddLog) :
        (IsCandle(k) /\ ddLog[k].cooldown > 0) =>
            /\ ~ddLog[k].trig
            /\ ddLog[k].cooldownAfter = ddLog[k].cooldown - 1
            /\ ddLog[k].ddStartAfter = ddLog[k].ddStart

\* C35 as stated: the invariants after OnCandle, no re-trigger during the
\* cooldown, and the recorded windows pairwise disjoint and ascending.
C35_AsStated ==
    /\ AfterOnCandle => ScalerAndCooldown
    /\ NoRetrigger
    /\ \A j \in SeqIdx(adapter.ddEvents) :
          /\ adapter.ddEvents[j].Start <= adapter.ddEvents[j].End
          /\ j > 1 => adapter.ddEvents[j - 1].End < adapter.ddEvents[j].Start

\* C35: after every OnCandle dd_scaler is 0.5 or 1.0, it is 0.5 exactly when
\* cooldown > 0, 0 <= cooldown < cooldown_bars and peak_equity >= equity; an
\* OnCandle during the cooldown never re-triggers; the recorded windows are in
\* ascending order, each starting no earlier than the one before it ended.
C35_CircuitInvariants ==
    /\ AfterOnCandle => ScalerAndCooldown
    /\ NoRetrigger
    /\ \A j \in SeqIdx(adapter.ddEvents) :
          /\ adapter.ddEvents[j].Start <= adapter.ddEvents[j].End
          /\ j > 1 => adapter.ddEvents[j - 1].End <= adapter.ddEvents[j].Start

\* Two windows that share a timestamp: the circuit was triggered again by the
\* candle of the other instrument in the group that ended the first window.
C35_Witness ==
    /\ AfterOnCandle
    /\ Len(adapter.ddEvents) = 2
    /\ adapter.ddEvents[1].End = adapter.ddEvents[2].Start
    /\ \E k \in SeqIdx(ddLog) : IsCandle(k) /\ ddLog[k].trig /\ ddLog[k].over

\* ------------------------------------------------------------------------
\* Properties of the application of pendings
\* ------------------------------------------------------------------------
\* Number of applications of a pending of the instrument in the calls of the
\* current group.
FillEvents(q, n) ==
    Cardinality({k \in SeqIdx(q) : q[k].step = "fill" /\ q[k].inst = n})

\* Step 2.6 applies each due pending of an instrument with a bar in the group
\* once and clears it, and leaves every other pending and position alone.
PendingApplied ==
    \A n \in Insts :
        IF FillDue(n)
        THEN /\ FillEvents(trace', n) = FillEvents(trace, n) + 1
             /\ ~states'[n].pendingTarget.set
             /\ IsFill(n) => states'[n].pos = FillTarget(n)
        ELSE /\ FillEvents(trace', n) = FillEvents(trace, n)
             /\ states'[n].pendingTarget = states[n].pendingTarget
             /\ states'[n].pos = states[n].pos

\* Outside step 2.6 no position changes, and outside steps 2.4 and 2.6 no
\* pending does.
PendingKept ==
    pc # "fill" =>
        \A n \in Insts :
            /\ states'[n].pos = states[n].pos
            /\ pc # "approve" => states'[n].pendingTarget = states[n].pendingTarget

\* The bars the run is done with: those of earlier groups, and those of the
\* current group once its step 2.6 has run.
BarDone(k) ==
    \/ all[k].T < ts
    \/ all[k].T = ts /\ pc \in {"roll", "record", "begin", "done"}

\* An outstanding pending has not been carried past a bar of its instrument at
\* or after its apply_ts.
NoBarSkipped ==
    \A n \in Insts :
        states[n].pendingTarget.set =>
            \A k \in SeqIdx(all) :
                (all[k].InstID = n /\ all[k].T >= states[n].pendingTarget.applyAt) =>
                    ~BarDone(k)

\* C36: a pending is applied exactly once, at the first bar of its instrument
\* with timestamp >= its apply_ts (unless step 2.4 replaced it before), and is
\* not outstanding after that bar.
C36_PendingAppliedOnce ==
    [][(pc = "fill" => PendingApplied) /\ PendingKept /\ NoBarSkipped']_vars

\* A pending made at one bar for the next was applied at the first bar after
\* a gap, later than its apply_ts, and is outstanding no more.
C36_Witness ==
    /\ pc = "roll"
    /\ cfg.TradeOnNextBar
    /\ \E k \in SeqIdx(fills) :
          /\ fills[k].ts = ts
          /\ fills[k].ts > decideApplyTs(fills[k].sigTs, TRUE, cfg.BarMinutes)
          /\ ~states[fills[k].inst].pendingTarget.set

\* ------------------------------------------------------------------------
\* Properties of the order of the trades
\* ------------------------------------------------------------------------
\* C37: step 2.6 of a group applies at most one pending per instrument, every
\* trade has entry_ts < exit_ts, and a later trade of the same instrument has
\* entry_ts >= the exit_ts of every earlier one.
C37_TradesOrdered ==
    /\ \A n \in Insts : FillEvents(trace, n) <= 1
    /\ \A a, b \in SeqIdx(fills) :
          (a # b /\ fills[a].inst = fills[b].inst) => fills[a].ts # fills[b].ts
    /\ \A k \in SeqIdx(trades) :
          /\ trades[k].EntryTime < trades[k].ExitTime
          /\ \A j \in 1..(k - 1) :
                 trades[j].InstID = trades[k].InstID =>
                     trades[k].EntryTime >= trades[j].ExitTime

\* Two trades of one instrument, the second entered where the first exits, the
\* first opened in a group that holds two bars of the instrument.
C37_Witness ==
    /\ Len(trades) = 2
    /\ trades[1].InstID = trades[2].InstID
    /\ trades[2].EntryTime = trades[1].ExitTime
    /\ Cardinality({k \in SeqIdx(all) : all[k].T = trades[1].EntryTime
                                         /\ all[k].InstID = trades[1].InstID}) = 2

\* ------------------------------------------------------------------------
\* Properties of the best candidate of the grid search
\* ------------------------------------------------------------------------
Reported == gridPc = "returned" /\ report # <<>>

\* C38 as stated: the best candidate of the report is the first entry of the
\* leaderboard, ties on the highest calmar included.
C38_AsStated == Reported => report.best = leaderboard[1]

\* ------------------------------------------------------------------------
\* Properties of the position the overlay tracks
\* ------------------------------------------------------------------------
\* The approve-and-schedule step is about to call Approve for n: the
\* position passed in is states[n].pos, the overlay's is ra.states[n].position.
ApproveDue(n) ==
    /\ pc = "approve" /\ hasRisk
    /\ n \in DOMAIN targets /\ WorthRebalance(n)

\* C39 as stated: at every Approve the kernel makes, the overlay's position
\* for the instrument is zero iff the position passed in is zero, and has its
\* sign otherwise.
C39_AsStated ==
    \A n \in Insts :
        ApproveDue(n) => sign(ra.states[n].position) = sign(states[n].pos)

\* C39: when fills are applied on the signal bar, at every Approve the kernel
\* makes the overlay's position for the instrument is the position passed in.
C39_TrackedOnSameBar ==
    \A n \in Insts :
        (ApproveDue(n) /\ ~cfg.TradeOnNextBar) =>
            ra.states[n].position = states[n].pos

\* An Approve is due, on the signal bar, for a position both hold.
C39_Witness ==
    \E n \in Insts :
        /\ ApproveDue(n) /\ ~cfg.TradeOnNextBar
        /\ states[n].pos # RZero
        /\ ra.states[n].position = states[n].pos

\* ------------------------------------------------------------------------
\* The run with the overlay on four consecutive one-minute bars of one instrument
\* ------------------------------------------------------------------------
\* Long enough for a position opened for the next bar to be stopped and the
\* close to be filled.
CloseLayouts == {[k \in Insts |-> IF k = "A" THEN <<1, 3, 5, 7>> ELSE <<>>]}

InitClose ==
    /\ InitRun(SizedConfigs, {TRUE}, CloseLayouts, 1, "begin")
    /\ RunnerIdle
    /\ RiskIdle
    /\ GridIdle

SpecClose == InitClose /\ [][NextSized]_vars

\* ------------------------------------------------------------------------
\* Properties of a close ordered by the overlay
\* ------------------------------------------------------------------------
\* The price the approve-and-schedule step hands to Approve for n.
ApproveRef(n) ==
    LET inG == findInGroup(group, n)
    IN  IF states[n].lastClose = RZero /\ inG # {}
        THEN RInt(group[CHOOSE k \in inG : \A m \in inG : k <= m].C)
        ELSE states[n].lastClose

\* The Approve about to be made for n returns a close action.
CloseDue(n) ==
    ApproveDue(n) /\ checkStops(riskCfg, ApproveRef(n), ra.states[n]) # ""

\* A pending with target 0 is outstanding for n.
ClosePending(n) ==
    states[n].pendingTarget.set /\ states[n].pendingTarget.target = RZero

\* C40: an Approve that returns a close action leaves a pending with target 0,
\* which stays outstanding, whatever is approved meanwhile, until the fill
\* that applies it, and that fill, the next one of the instrument, leaves the
\* position at 0.
C40_ClosedAtNextFill ==
    [][\A n \in Insts :
          /\ CloseDue(n) => ClosePending(n)'
          /\ ClosePending(n) =>
                \/ ClosePending(n)'
                \/ (~states'[n].pendingTarget.set /\ states'[n].pos = RZero)]_vars

\* A position, the only one opened, was closed at the bar after the one the
\* overlay stopped it at (the only stop, counted before the closing group
\* began), and the target approved at the closing bar did not replace the close.
C40_Witness ==
    \E n \in Insts :
        /\ hasRisk /\ cfg.TradeOnNextBar /\ pc = "roll"
        /\ start.ra.stopCounts["atr_stop"] + start.ra.stopCounts["atr_trail"] = 1
        /\ ra.stopCounts = start.ra.stopCounts
        /\ Len(fills) = 2
        /\ fills[1].target # RZero
        /\ \E a, b \in SeqIdx(trace) :
              /\ a < b
              /\ trace[a] = Ev("approve", n) /\ trace[b] = Ev("fill", n)
        /\ Len(fills) > 0
        /\ fills[Len(fills)].inst = n
        /\ fills[Len(fills)].target = RZero
        /\ fills[Len(fills)].sigTs < fills[Len(fills)].ts
        /\ fills[Len(fills)].ts = ts
        /\ states[n].pos = RZero
        /\ ~states[n].pendingTarget.set

====
